---- MODULE Spec2Model ----
(***************************************************************************)
(* A model of the containerlab-project automation scripts and phase tests: *)
(*   scripts/netbox_populate.py          the designed topology (DEVICES,   *)
(*                                       LINKS) and the inventory it seeds *)
(*   scripts/netbox_generate_configs.py  get_device_data,                  *)
(*                                       get_bgp_neighbors,                *)
(*                                       generate_phase_configs            *)
(*   scripts/apply_configs.py            get_config_files, apply_config,   *)
(*                                       main                              *)
(*   tests/test_phase*.py                the connected_devices fixtures    *)
(*                                       and the assertions of the tests   *)
(*                                                                         *)
(* Text is modelled as a sequence of one-character strings, so that        *)
(* split, join, int(), str() and the `in' substring test are computed, not *)
(* assumed.  Python's None is None where a text is expected and NoneRec    *)
(* where a record is.                                                      *)
(***************************************************************************)
EXTENDS Integers, Sequences, FiniteSets, TLC

VARIABLES
    nb,            \* the NetBox inventory the generator reads
    dd_name,       \* get_device_data: the device asked for
    dd_plen,       \* the prefix length the inventory address was built from
    dd_addr,       \* the host address the inventory address was built from
    dd_out,        \* get_device_data: its return value (Unset before the call)
    gen_phase,     \* generate_phase_configs: the phase argument
    gen_filter,    \* its device_filter argument ("" for None)
    gen_dry_run,   \* its dry_run argument
    gen_pc,        \* where it stands: idle, start, loopbacks, devices, done, raised
    gen_i,         \* the index of the loop it is in
    all_loopbacks, \* its dict all_loopbacks, in insertion order
    gen_out,       \* what it has printed: <<kind, device>> per message
    gen_exc,       \* the exception that left it, "" while none has
    fs,            \* the file system under configs/: directories and files
    bn_name,       \* get_bgp_neighbors called alone: device_name
    bn_map,        \* its all_devices argument
    bn_out,        \* what the call gave (Unset before the call)
    bt_router,     \* a BGP session test: its router parameter
    bt_states,     \* the session state of each peer the summary shows
    bt_output,     \* the text of 'show bgp vpnv4 unicast all summary'
    bt_result,     \* test_bgp_neighbors_established: "unset", then "passed" or "failed"
    bt_correct,    \* test_correct_bgp_neighbors: Unset, then its outcome
    bt_sessions,   \* test_all_sessions_established: "unset", then "passed" or "failed"
    fx_module,     \* the phase test module pytest is running (1..8)
    fx_unreachable,\* the devices whose connect raises
    fx_pc,         \* setup, setup_disconnect, tests, teardown, done
    fx_i,          \* the position in the loop or in the test list
    fx_devices,    \* the fixture's dict devices, as the list of its keys
    fx_value,      \* what the tests receive: unset, devices, None, error
    fx_open,       \* the devices with an open connection
    fx_log,        \* the device calls so far: <<call, device>>
    fx_results,    \* per test run: [router, outcome]
    ap_phase,      \* apply_configs.main: --phase
    ap_device,     \* --device ("" for None)
    ap_dry_run,    \* --dry-run
    ap_testbed,    \* the devices of testbed.yml
    ap_pc,         \* idle (no run yet), apply (in the device loop), exit
    ap_configs,    \* the dict configs, as the sorted list of its keys
    ap_i,          \* the position in the loop over sorted(configs.items())
    ap_success,    \* the counter success
    ap_failed,     \* the counter failed
    ap_exit,       \* the exit status, -1 while running
    ap_log,        \* what the run has printed and called on devices so far
    ap_applied,    \* the phases a run has applied without failure
    ld_router,     \* an LDP neighbor test: its router parameter
    ld_states,     \* per LDP neighbor the output shows, its state
    ld_output,     \* the text of 'show mpls ldp neighbor'
    ld_result,     \* test_ldp_neighbors_operational: "unset", then "passed" or "failed"
    pop_pc,        \* netbox_populate.main: idle, devices, links, done
    pop_i,         \* the position in the loop over DEVICES or LINKS
    pop_run,       \* how many times main has been started
    pop_faults,    \* how many cable creations the server has refused for its own reasons
    pop_misc,      \* the server: site, manufacturer, device type and roles
    pop_devices,   \* the server: per device name, its primary_ip4
    pop_intfs,     \* the server: the interfaces, <<device, name>>
    pop_ips,       \* the server: the IP addresses, [address, intf]
    pop_cables,    \* the server: the cables, [a, b]
    pop_created,   \* what the current run has created, per kind
    pop_out,       \* the warnings the current run has printed
    vf_name,       \* test_phase8_l3vpn: the VRF the tests are parametrised with
    vf_cfg,        \* per PE router, the vrf definition section of its running configuration
    vf_results,    \* the outcomes of test_vrf_exists, test_vrf_rd, test_vrf_rt_export, test_vrf_rt_import
    rt_configs,    \* what get_config_files has returned after a generator run
    net_applied,   \* the phases whose configuration is on the devices
    net_converged, \* the phases whose links have formed their adjacencies
    net_val        \* per phase: Pending, Validated, Failed

invVars == <<nb>>
fsVars == <<fs>>
maskVars == <<dd_name, dd_plen, dd_addr, dd_out>>
genVars == <<gen_phase, gen_filter, gen_dry_run, gen_pc, gen_i, all_loopbacks,
             gen_out, gen_exc>>
bnVars == <<bn_name, bn_map, bn_out>>
btVars == <<bt_router, bt_states, bt_output, bt_result, bt_correct, bt_sessions>>
fxVars == <<fx_module, fx_unreachable, fx_pc, fx_i, fx_devices, fx_value, fx_open,
            fx_log, fx_results>>
apVars == <<ap_phase, ap_device, ap_dry_run, ap_testbed, ap_pc, ap_configs,
            ap_i, ap_success, ap_failed, ap_exit, ap_log, ap_applied>>
netVars == <<net_applied, net_converged, net_val>>
rtVars == <<rt_configs>>
vfVars == <<vf_name, vf_cfg, vf_results>>
popVars == <<pop_pc, pop_i, pop_run, pop_faults, pop_misc, pop_devices, pop_intfs, pop_ips, pop_cables, pop_created, pop_out>>
ldVars == <<ld_router, ld_states, ld_output, ld_result>>

vars == <<invVars, fsVars, maskVars, genVars, bnVars, btVars, fxVars, apVars, netVars, ldVars, popVars, vfVars, rtVars>>

\* what each part of the model leaves alone
notMask == <<fsVars, genVars, bnVars, btVars, fxVars, apVars, netVars, ldVars, popVars, vfVars, rtVars>>
notGen == <<maskVars, bnVars, btVars, fxVars, apVars, netVars, ldVars, popVars, vfVars, rtVars>>
notBn == <<invVars, fsVars, maskVars, genVars, btVars, fxVars, apVars, netVars, ldVars, popVars, vfVars, rtVars>>
notBt == <<invVars, fsVars, maskVars, genVars, bnVars, fxVars, apVars, netVars, ldVars, popVars, vfVars, rtVars>>
notFx == <<invVars, fsVars, maskVars, genVars, bnVars, btVars, apVars, netVars, ldVars, popVars, vfVars, rtVars>>
notAp == <<invVars, maskVars, genVars, bnVars, btVars, fxVars, netVars, ldVars, popVars, vfVars, rtVars>>
notNet == <<invVars, fsVars, maskVars, genVars, bnVars, btVars, fxVars, apVars, ldVars, popVars, vfVars, rtVars>>
notRt == <<invVars, fsVars, maskVars, genVars, bnVars, btVars, fxVars, apVars, netVars, ldVars, popVars, vfVars>>
notVf == <<invVars, fsVars, maskVars, genVars, bnVars, btVars, fxVars, apVars, netVars, ldVars, popVars, rtVars>>
notPop == <<invVars, fsVars, maskVars, genVars, bnVars, btVars, fxVars, apVars, netVars, ldVars, vfVars, rtVars>>
notLd == <<invVars, fsVars, maskVars, genVars, bnVars, btVars, fxVars, apVars, netVars, popVars, vfVars, rtVars>>

None == <<"None">>
NoVrfResults == [exists |-> "unset", rd |-> "unset", rt_export |-> "unset", rt_import |-> "unset"]
NothingCreated == [misc |-> 0, devices |-> 0, interfaces |-> 0, ips |-> 0, cables |-> 0]
NoneRec == [py |-> "None"]
Unset == [py |-> "unset"]

NoFilter == ""
EmptyFn == [x \in {} |-> x]
EmptyFs == [dirs |-> {}, files |-> EmptyFn]

\* the parts of the model that a specification does not run stay as they are here
InvIdle == nb = EmptyFn
FsIdle == fs = EmptyFs
MaskIdle == dd_name = "" /\ dd_plen = 0 /\ dd_addr = <<>> /\ dd_out = Unset
GenIdle ==
    /\ gen_phase = 0 /\ gen_filter = NoFilter /\ gen_dry_run = FALSE
    /\ gen_pc = "idle" /\ gen_i = 0 /\ all_loopbacks = <<>>
    /\ gen_out = <<>> /\ gen_exc = ""
BnIdle == bn_name = "" /\ bn_map = <<>> /\ bn_out = Unset
BtIdle ==
    /\ bt_router = "" /\ bt_states = EmptyFn /\ bt_output = <<>>
    /\ bt_result = "unset" /\ bt_correct = Unset /\ bt_sessions = "unset"
FxIdle ==
    /\ fx_module = 0 /\ fx_unreachable = {} /\ fx_pc = "idle" /\ fx_i = 0
    /\ fx_devices = <<>> /\ fx_value = "unset" /\ fx_open = {}
    /\ fx_log = <<>> /\ fx_results = <<>>
ApIdle ==
    /\ ap_phase = 0 /\ ap_device = NoFilter /\ ap_dry_run = FALSE
    /\ ap_testbed = {} /\ ap_pc = "idle"
    /\ ap_configs = <<>> /\ ap_i = 0 /\ ap_success = 0 /\ ap_failed = 0
    /\ ap_exit = -1 /\ ap_log = <<>> /\ ap_applied = {}
NetIdle == net_applied = {} /\ net_converged = {} /\ net_val = EmptyFn
RtIdle ==
    /\ rt_configs = Unset
VfIdle ==
    /\ vf_name = "" /\ vf_cfg = EmptyFn /\ vf_results = NoVrfResults
PopIdle ==
    /\ pop_pc = "idle" /\ pop_i = 0 /\ pop_run = 0 /\ pop_faults = 0
    /\ pop_misc = {} /\ pop_devices = EmptyFn /\ pop_intfs = {} /\ pop_ips = {}
    /\ pop_cables = {} /\ pop_created = NothingCreated /\ pop_out = <<>>
LdIdle ==
    /\ ld_router = "" /\ ld_states = EmptyFn /\ ld_output = <<>> /\ ld_result = "unset"

IdleBut(S) ==
    /\ IF "inv" \in S THEN TRUE ELSE InvIdle
    /\ IF "fs" \in S THEN TRUE ELSE FsIdle
    /\ IF "mask" \in S THEN TRUE ELSE MaskIdle
    /\ IF "gen" \in S THEN TRUE ELSE GenIdle
    /\ IF "bn" \in S THEN TRUE ELSE BnIdle
    /\ IF "bt" \in S THEN TRUE ELSE BtIdle
    /\ IF "fx" \in S THEN TRUE ELSE FxIdle
    /\ IF "ap" \in S THEN TRUE ELSE ApIdle
    /\ IF "net" \in S THEN TRUE ELSE NetIdle
    /\ IF "rt" \in S THEN TRUE ELSE RtIdle
    /\ IF "vf" \in S THEN TRUE ELSE VfIdle
    /\ IF "pop" \in S THEN TRUE ELSE PopIdle
    /\ IF "ld" \in S THEN TRUE ELSE LdIdle

(***************************************************************************)
(* Text                                                                    *)
(***************************************************************************)

DigitChars == <<"0", "1", "2", "3", "4", "5", "6", "7", "8", "9">>

\* str(n) of a non-negative int
RECURSIVE IntStr(_)
IntStr(n) ==
    IF n < 10 THEN <<DigitChars[n + 1]>>
    ELSE IntStr(n \div 10) \o <<DigitChars[(n % 10) + 1]>>

DigitVal(c) == CHOOSE d \in 0..9 : DigitChars[d + 1] = c

\* int(s) of a string of decimal digits
RECURSIVE ParseInt(_)
ParseInt(s) ==
    IF Len(s) = 0 THEN 0
    ELSE ParseInt(SubSeq(s, 1, Len(s) - 1)) * 10 + DigitVal(s[Len(s)])

\* s.split(sep) for a one-character separator
RECURSIVE Split(_, _)
Split(s, sep) ==
    IF \A i \in 1..Len(s) : s[i] # sep THEN <<s>>
    ELSE LET i == CHOOSE k \in 1..Len(s) :
                      s[k] = sep /\ \A j \in 1..(k - 1) : s[j] # sep
         IN  <<SubSeq(s, 1, i - 1)>> \o Split(SubSeq(s, i + 1, Len(s)), sep)

\* sep.join(parts)
RECURSIVE Join(_, _)
Join(sep, parts) ==
    IF Len(parts) = 0 THEN <<>>
    ELSE IF Len(parts) = 1 THEN parts[1]
    ELSE parts[1] \o sep \o Join(sep, Tail(parts))

\* sub in s
Contains(s, sub) ==
    \E text \in {s}, part \in {sub} :
        \E i \in 1..(Len(text) - Len(part) + 1) : SubSeq(text, i, i + Len(part) - 1) = part

\* the dotted-quad text of four octets, as the literals of the source spell it
Dotted(o) == Join(<<".">>, [k \in 1..4 |-> IntStr(o[k])])

\* 'a.b.c.d/p'
Cidr(o, p) == Dotted(o) \o <<"/">> \o IntStr(p)

(***************************************************************************)
(* scripts/netbox_populate.py: the designed topology                       *)
(***************************************************************************)

DeviceNames ==
    <<"core1", "core2", "core3", "core4", "core5",
      "inet-gw1", "inet-gw2",
      "main-agg1", "main-edge1", "main-edge2", "main-asw1",
      "med-agg1", "med-edge1", "med-edge2", "med-asw1",
      "res-agg1", "res-edge1", "res-edge2", "res-asw1">>

Dev_OneManagementAddress(role, lo, mgmt) ==
    [role |-> role, loopback |-> Dotted(lo), mgmt |-> Dotted(<<192, 168, 68, 200>>)]

Dev_GatewayLoopbackExtendsCore(role, lo, mgmt) ==
    [role |-> role,
     loopback |-> IF role = "gateway" THEN Dotted(<<10, 255, 1, 10 + lo[4]>>) ELSE Dotted(lo),
     mgmt |-> Dotted(mgmt)]

Dev(role, lo, mgmt) == [role |-> role, loopback |-> Dotted(lo), mgmt |-> Dotted(mgmt)]

DEVICES ==
    [n \in {DeviceNames[i] : i \in 1..Len(DeviceNames)} |->
        CASE n = "core1"      -> Dev("core", <<10, 255, 1, 1>>, <<192, 168, 68, 200>>)
          [] n = "core2"      -> Dev("core", <<10, 255, 1, 2>>, <<192, 168, 68, 202>>)
          [] n = "core3"      -> Dev("core", <<10, 255, 1, 3>>, <<192, 168, 68, 203>>)
          [] n = "core4"      -> Dev("core", <<10, 255, 1, 4>>, <<192, 168, 68, 204>>)
          [] n = "core5"      -> Dev("core", <<10, 255, 1, 5>>, <<192, 168, 68, 205>>)
          [] n = "inet-gw1"   -> Dev("gateway", <<10, 255, 0, 1>>, <<192, 168, 68, 206>>)
          [] n = "inet-gw2"   -> Dev("gateway", <<10, 255, 0, 2>>, <<192, 168, 68, 251>>)
          [] n = "main-agg1"  -> Dev("aggregation", <<10, 255, 10, 1>>, <<192, 168, 68, 208>>)
          [] n = "main-edge1" -> Dev("edge", <<10, 255, 10, 2>>, <<192, 168, 68, 209>>)
          [] n = "main-edge2" -> Dev("edge", <<10, 255, 10, 3>>, <<192, 168, 68, 210>>)
          [] n = "main-asw1"  -> Dev("access", <<10, 255, 10, 4>>, <<192, 168, 68, 253>>)
          [] n = "med-agg1"   -> Dev("aggregation", <<10, 255, 20, 1>>, <<192, 168, 68, 211>>)
          [] n = "med-edge1"  -> Dev("edge", <<10, 255, 20, 2>>, <<192, 168, 68, 212>>)
          [] n = "med-edge2"  -> Dev("edge", <<10, 255, 20, 3>>, <<192, 168, 68, 213>>)
          [] n = "med-asw1"   -> Dev("access", <<10, 255, 20, 4>>, <<192, 168, 68, 252>>)
          [] n = "res-agg1"   -> Dev("aggregation", <<10, 255, 30, 1>>, <<192, 168, 68, 214>>)
          [] n = "res-edge1"  -> Dev("edge", <<10, 255, 30, 2>>, <<192, 168, 68, 215>>)
          [] n = "res-edge2"  -> Dev("edge", <<10, 255, 30, 3>>, <<192, 168, 68, 216>>)
          [] n = "res-asw1"   -> Dev("access", <<10, 255, 30, 4>>, <<192, 168, 68, 254>>)]

\* an interface name: 'Loopback0', 'GigabitEthernet<n>'
Intf(kind, num) == [kind |-> kind, num |-> num]
Gi(num) == Intf("GigabitEthernet", num)
Loopback0 == Intf("Loopback", 0)

\* one entry of LINKS: (device_a, intf_a, ip_a, device_b, intf_b, ip_b); every
\* address of the list is written with /31
Link_WiderPrefixOnB(da, ia, oa, db, ib, ob) ==
    [dev_a |-> da, intf_a |-> Gi(ia), ip_a |-> Cidr(oa, 31),
     dev_b |-> db, intf_b |-> Gi(ib), ip_b |-> Cidr(ob, 30)]

Link(da, ia, oa, db, ib, ob) ==
    [dev_a |-> da, intf_a |-> Gi(ia), ip_a |-> Cidr(oa, 31),
     dev_b |-> db, intf_b |-> Gi(ib), ip_b |-> Cidr(ob, 31)]

LINKS ==
    << \* Core ring
       Link("core1", 2, <<10, 0, 0, 0>>, "core2", 2, <<10, 0, 0, 1>>),
       Link("core2", 3, <<10, 0, 0, 2>>, "core3", 2, <<10, 0, 0, 3>>),
       Link("core3", 3, <<10, 0, 0, 4>>, "core4", 2, <<10, 0, 0, 5>>),
       Link("core4", 3, <<10, 0, 0, 6>>, "core5", 2, <<10, 0, 0, 7>>),
       Link("core5", 3, <<10, 0, 0, 8>>, "core1", 3, <<10, 0, 0, 9>>),
       \* Internet gateways
       Link("core1", 4, <<10, 0, 0, 10>>, "inet-gw1", 2, <<10, 0, 0, 11>>),
       Link("core2", 4, <<10, 0, 0, 12>>, "inet-gw2", 2, <<10, 0, 0, 13>>),
       \* Main campus
       Link("core1", 5, <<10, 0, 1, 0>>, "main-agg1", 2, <<10, 0, 1, 1>>),
       Link("core2", 5, <<10, 0, 1, 2>>, "main-agg1", 3, <<10, 0, 1, 3>>),
       Link("main-agg1", 4, <<10, 0, 1, 4>>, "main-edge1", 2, <<10, 0, 1, 5>>),
       Link("main-agg1", 5, <<10, 0, 1, 6>>, "main-edge2", 2, <<10, 0, 1, 7>>),
       Link("main-edge1", 3, <<10, 0, 1, 8>>, "main-edge2", 3, <<10, 0, 1, 9>>),
       \* Medical campus
       Link("core2", 6, <<10, 0, 2, 0>>, "med-agg1", 2, <<10, 0, 2, 1>>),
       Link("core3", 4, <<10, 0, 2, 2>>, "med-agg1", 3, <<10, 0, 2, 3>>),
       Link("med-agg1", 4, <<10, 0, 2, 4>>, "med-edge1", 2, <<10, 0, 2, 5>>),
       Link("med-agg1", 5, <<10, 0, 2, 6>>, "med-edge2", 2, <<10, 0, 2, 7>>),
       Link("med-edge1", 3, <<10, 0, 2, 8>>, "med-edge2", 3, <<10, 0, 2, 9>>),
       \* Research campus
       Link("core4", 4, <<10, 0, 3, 0>>, "res-agg1", 2, <<10, 0, 3, 1>>),
       Link("core5", 4, <<10, 0, 3, 2>>, "res-agg1", 3, <<10, 0, 3, 3>>),
       Link("res-agg1", 4, <<10, 0, 3, 4>>, "res-edge1", 2, <<10, 0, 3, 5>>),
       Link("res-agg1", 5, <<10, 0, 3, 6>>, "res-edge2", 2, <<10, 0, 3, 7>>),
       Link("res-edge1", 3, <<10, 0, 3, 8>>, "res-edge2", 3, <<10, 0, 3, 9>>),
       \* Edge to ASW links
       Link("main-edge1", 4, <<10, 0, 1, 10>>, "main-asw1", 2, <<10, 0, 1, 11>>),
       Link("main-edge2", 4, <<10, 0, 1, 12>>, "main-asw1", 3, <<10, 0, 1, 13>>),
       Link("med-edge1", 4, <<10, 0, 2, 10>>, "med-asw1", 2, <<10, 0, 2, 11>>),
       Link("med-edge2", 4, <<10, 0, 2, 12>>, "med-asw1", 3, <<10, 0, 2, 13>>),
       Link("res-edge1", 4, <<10, 0, 3, 10>>, "res-asw1", 2, <<10, 0, 3, 11>>),
       Link("res-edge2", 4, <<10, 0, 3, 12>>, "res-asw1", 3, <<10, 0, 3, 13>>) >>

(***************************************************************************)
(* The inventory (NetBox) as netbox_populate.main leaves it: per device,   *)
(* its interfaces in creation order, each with the addresses assigned to   *)
(* it and the device at the far end of its cable ("" without a cable).     *)
(***************************************************************************)

NbIntf(name, ips, peer) == [name |-> name, ips |-> ips, connected |-> peer]

\* the link interfaces of device d among LINKS[i..], in LINKS order
RECURSIVE LinkIntfs(_, _)
LinkIntfs(d, i) ==
    IF i > Len(LINKS) THEN <<>>
    ELSE LET l == LINKS[i]
             a == IF l.dev_a = d THEN <<NbIntf(l.intf_a, <<l.ip_a>>, l.dev_b)>> ELSE <<>>
             b == IF l.dev_b = d THEN <<NbIntf(l.intf_b, <<l.ip_b>>, l.dev_a)>> ELSE <<>>
         IN  a \o b \o LinkIntfs(d, i + 1)

PopulatedInterfaces(d) ==
    << NbIntf(Loopback0, <<DEVICES[d].loopback \o <<"/">> \o IntStr(32)>>, ""),
       NbIntf(Gi(1), <<DEVICES[d].mgmt \o <<"/">> \o IntStr(24)>>, "") >>
    \o LinkIntfs(d, 1)

(***************************************************************************)
(* scripts/netbox_generate_configs.py: get_device_data                     *)
(***************************************************************************)

\* A Python int, which has no width, as its bits, lowest first.
AllOnes32 == [k \in 1..32 |-> 1]                           \* 0xffffffff
ShiftLeft(bits, n) == [k \in 1..n |-> 0] \o bits           \* bits << n
ShiftRight(bits, n) == SubSeq(bits, n + 1, Len(bits))      \* bits >> n
RECURSIVE LowBits(_, _)
LowBits(bits, n) ==                                        \* bits & (2^n - 1)
    IF n = 0 \/ Len(bits) = 0 THEN 0
    ELSE bits[1] + 2 * LowBits(Tail(bits), n - 1)

MaxPrefixLen == 32

\* the shifts of the comprehension `for i in [24, 16, 8, 0]'
MaskShifts == <<24, 16, 8, 0>>

MaskOctet_ShiftOffByOne(prefix_len, i) ==
    LowBits(ShiftRight(ShiftLeft(AllOnes32, (MaxPrefixLen + 1) - prefix_len), i), 8)

\* (0xffffffff << (32 - prefix_len) >> i) & 0xff
MaskOctet(prefix_len, i) ==
    LowBits(ShiftRight(ShiftLeft(AllOnes32, MaxPrefixLen - prefix_len), i), 8)

\* '.'.join([str(...) for i in [24, 16, 8, 0]])
PrefixToMask(prefix_len) ==
    Join(<<".">>, [k \in 1..4 |-> IntStr(MaskOctet(prefix_len, MaskShifts[k]))])

\* the loop over interfaces that finds the Loopback0 address: the last
\* Loopback0 with an address decides
RECURSIVE LoopbackIp(_, _, _)
LoopbackIp(interfaces, i, acc) ==
    IF i > Len(interfaces) THEN acc
    ELSE LET intf == interfaces[i]
         IN  IF intf.name = Loopback0 /\ Len(intf.ips) > 0
             THEN LoopbackIp(interfaces, i + 1, Split(intf.ips[1], "/")[1])
             ELSE LoopbackIp(interfaces, i + 1, acc)

\* the record appended to interface_data for one interface
InterfaceRecord(intf) ==
    LET ip_addr    == intf.ips[1]
        ip_only    == Split(ip_addr, "/")[1]
        prefix_len == ParseInt(Split(ip_addr, "/")[2])
    IN  [name        |-> intf.name,
         ip          |-> ip_only,
         mask        |-> PrefixToMask(prefix_len),
         prefix      |-> ip_addr,
         description |-> IF intf.connected # "" THEN <<"to ", intf.connected>> ELSE <<>>]

\* the loop that builds interface_data
RECURSIVE InterfaceData(_, _)
InterfaceData(interfaces, i) ==
    IF i > Len(interfaces) THEN <<>>
    ELSE LET intf == interfaces[i]
         IN  (IF intf.name.kind = "GigabitEthernet" /\ intf.name # Gi(1) /\ Len(intf.ips) > 0
              THEN <<InterfaceRecord(intf)>> ELSE <<>>)
             \o InterfaceData(interfaces, i + 1)

get_device_data(inv, device_name) ==
    IF device_name \notin DOMAIN inv THEN NoneRec
    ELSE [device      |-> device_name,
          loopback_ip |-> LoopbackIp(inv[device_name], 1, None),
          interfaces  |-> InterfaceData(inv[device_name], 1)]

(***************************************************************************)
(* scripts/netbox_generate_configs.py: the constants                       *)
(***************************************************************************)

BGP_AS == 65001
ROUTE_REFLECTORS == <<"core1", "core2", "core5">>
RR_CLIENTS == <<"core3", "core4">>

CoreDevices == <<"core1", "core2", "core3", "core4", "core5">>

PHASE_CONFIG ==
    [p \in {1, 2, 3} |->
        CASE p = 1 -> [name |-> "phase1_core_ospf", template |-> "phase1_ospf.j2",
                       devices |-> CoreDevices, description |-> "Core Ring OSPF"]
          [] p = 2 -> [name |-> "phase2_mpls_ldp", template |-> "phase2_mpls.j2",
                       devices |-> CoreDevices, description |-> "MPLS LDP"]
          [] p = 3 -> [name |-> "phase3_mpbgp_rr", template |-> "phase3_bgp.j2",
                       devices |-> CoreDevices, description |-> "MP-BGP Route Reflectors"]]

SeqToSet(s) == {s[i] : i \in 1..Len(s)}
InSeq(x, s) == \E i \in 1..Len(s) : s[i] = x

\* A Python dict, which keeps insertion order: a sequence of [k, v].
DictKeys(d) == {d[i].k : i \in 1..Len(d)}
DictHas(d, key) == \E i \in 1..Len(d) : d[i].k = key
DictGet(d, key) == d[CHOOSE i \in 1..Len(d) : d[i].k = key].v
DictSet(d, key, val) ==
    IF DictHas(d, key)
    THEN [i \in 1..Len(d) |-> IF d[i].k = key THEN [k |-> key, v |-> val] ELSE d[i]]
    ELSE Append(d, [k |-> key, v |-> val])

(***************************************************************************)
(* get_bgp_neighbors: [exc, neighbors], exc "" when it returns             *)
(***************************************************************************)

\* the loop `for other in all_devices' of a route reflector
RECURSIVE RRPeers(_, _, _)
RRPeers(device_name, all_devices, i) ==
    IF i > Len(all_devices) THEN <<>>
    ELSE LET other     == all_devices[i].k
             is_client == InSeq(other, RR_CLIENTS)
         IN  (IF other # device_name
              THEN << [ip          |-> all_devices[i].v,
                       description |-> <<other, IF is_client THEN "-RR-client" ELSE "">>,
                       is_client   |-> is_client] >>
              ELSE <<>>)
             \o RRPeers(device_name, all_devices, i + 1)

\* the loop `for rr in ROUTE_REFLECTORS' of any other device
RECURSIVE ClientPeers(_, _)
ClientPeers(all_devices, i) ==
    IF i > Len(ROUTE_REFLECTORS) THEN <<>>
    ELSE << [ip          |-> DictGet(all_devices, ROUTE_REFLECTORS[i]),
             description |-> <<ROUTE_REFLECTORS[i], "-RR">>,
             is_client   |-> FALSE] >>
         \o ClientPeers(all_devices, i + 1)

get_bgp_neighbors_ReflectorsForAll(device_name, all_devices) ==
    IF \E i \in 1..Len(ROUTE_REFLECTORS) : ~DictHas(all_devices, ROUTE_REFLECTORS[i])
    THEN [exc |-> "KeyError", neighbors |-> <<>>]
    ELSE [exc |-> "", neighbors |-> ClientPeers(all_devices, 1)]

get_bgp_neighbors_NoClientBranch(device_name, all_devices) ==
    [exc |-> "", neighbors |-> RRPeers(device_name, all_devices, 1)]

get_bgp_neighbors(device_name, all_devices) ==
    IF InSeq(device_name, ROUTE_REFLECTORS)
    THEN [exc |-> "", neighbors |-> RRPeers(device_name, all_devices, 1)]
    ELSE IF \E i \in 1..Len(ROUTE_REFLECTORS) : ~DictHas(all_devices, ROUTE_REFLECTORS[i])
    THEN [exc |-> "KeyError", neighbors |-> <<>>]      \* all_devices[rr] raises
    ELSE [exc |-> "", neighbors |-> ClientPeers(all_devices, 1)]

(***************************************************************************)
(* generate_phase_configs                                                  *)
(***************************************************************************)


\* one pass of the loop that fills all_loopbacks
LoopbackStep(inv, dict, device_name) ==
    LET data == get_device_data(inv, device_name)
    IN  IF data # NoneRec THEN DictSet(dict, device_name, data.loopback_ip) ELSE dict

\* devices_to_process
DevicesToProcess(phase_info, device_filter) ==
    IF device_filter # NoFilter THEN <<device_filter>> ELSE phase_info.devices

\* the template context of one device
Context(phase, device_name, data, loopbacks) ==
    LET base == [device |-> data.device, loopback_ip |-> data.loopback_ip]
    IN  CASE phase = 1 -> [exc |-> "", context |->
                 [device |-> base.device, loopback_ip |-> base.loopback_ip,
                  ospf_interfaces |-> data.interfaces]]
          [] phase = 2 -> [exc |-> "", context |->
                 [device |-> base.device, loopback_ip |-> base.loopback_ip,
                  mpls_interfaces |-> data.interfaces]]
          [] phase = 3 ->
                 LET r == get_bgp_neighbors(device_name, loopbacks)
                 IN  [exc |-> r.exc, context |->
                         [device |-> base.device, loopback_ip |-> base.loopback_ip,
                          bgp_as |-> BGP_AS,
                          is_route_reflector |-> InSeq(device_name, ROUTE_REFLECTORS),
                          bgp_neighbors |-> r.neighbors]]

\* template.render(**context): the rendering engine is outside the
\* repository; the text it gives is a function of the template and the context
Render(template, context) == [template |-> template, context |-> context]

GenStart_MkdirBeforeCheck ==
    /\ gen_pc = "start"
    /\ IF gen_phase \notin DOMAIN PHASE_CONFIG
       THEN /\ gen_out' = Append(gen_out, <<"unknown_phase", "">>)
            /\ gen_pc' = "done"
            /\ fs' = [fs EXCEPT !.dirs = @ \cup {"None"}]
            /\ UNCHANGED gen_i
       ELSE /\ fs' = IF gen_dry_run THEN fs
                     ELSE [fs EXCEPT !.dirs = @ \cup {PHASE_CONFIG[gen_phase].name}]
            /\ gen_pc' = "loopbacks"
            /\ gen_i' = 1
            /\ UNCHANGED gen_out
    /\ UNCHANGED <<nb, gen_phase, gen_filter, gen_dry_run, all_loopbacks, gen_exc>>
    /\ UNCHANGED notGen

GenStart_AlwaysMkdir ==
    /\ gen_pc = "start"
    /\ IF gen_phase \notin DOMAIN PHASE_CONFIG
       THEN /\ gen_out' = Append(gen_out, <<"unknown_phase", "">>)
            /\ gen_pc' = "done"
            /\ UNCHANGED <<fs, gen_i>>
       ELSE /\ fs' = [fs EXCEPT !.dirs = @ \cup {PHASE_CONFIG[gen_phase].name}]
            /\ gen_pc' = "loopbacks"
            /\ gen_i' = 1
            /\ UNCHANGED gen_out
    /\ UNCHANGED <<nb, gen_phase, gen_filter, gen_dry_run, all_loopbacks, gen_exc>>
    /\ UNCHANGED notGen

GenStart ==
    /\ gen_pc = "start"
    /\ IF gen_phase \notin DOMAIN PHASE_CONFIG
       THEN /\ gen_out' = Append(gen_out, <<"unknown_phase", "">>)
            /\ gen_pc' = "done"
            /\ UNCHANGED <<fs, gen_i>>
       ELSE /\ fs' = IF gen_dry_run THEN fs
                     ELSE [fs EXCEPT !.dirs = @ \cup {PHASE_CONFIG[gen_phase].name}]
            /\ gen_pc' = "loopbacks"
            /\ gen_i' = 1
            /\ UNCHANGED gen_out
    /\ UNCHANGED <<nb, gen_phase, gen_filter, gen_dry_run, all_loopbacks, gen_exc>>
    /\ UNCHANGED notGen

GenLoadLoopback ==
    /\ gen_pc = "loopbacks"
    /\ LET devices == PHASE_CONFIG[gen_phase].devices
       IN  /\ all_loopbacks' = LoopbackStep(nb, all_loopbacks, devices[gen_i])
           /\ IF gen_i < Len(devices)
              THEN gen_i' = gen_i + 1 /\ gen_pc' = gen_pc
              ELSE gen_i' = 1 /\ gen_pc' = "devices"
    /\ UNCHANGED <<nb, gen_phase, gen_filter, gen_dry_run, gen_out, gen_exc, fs>>
    /\ UNCHANGED notGen

GenProcessDevice ==
    /\ gen_pc = "devices"
    /\ LET phase_info  == PHASE_CONFIG[gen_phase]
           todo        == DevicesToProcess(phase_info, gen_filter)
           device_name == todo[gen_i]
           data        == get_device_data(nb, device_name)
           next_pc     == IF gen_i < Len(todo) THEN "devices" ELSE "done"
       IN  IF ~InSeq(device_name, phase_info.devices)
           THEN /\ gen_out' = Append(gen_out, <<"warning_not_in_phase", device_name>>)
                /\ gen_pc' = next_pc
                /\ gen_i' = gen_i + 1
                /\ UNCHANGED <<fs, gen_exc>>
           ELSE IF data = NoneRec
           THEN /\ gen_out' = Append(gen_out, <<"error_not_found", device_name>>)
                /\ gen_pc' = next_pc
                /\ gen_i' = gen_i + 1
                /\ UNCHANGED <<fs, gen_exc>>
           ELSE LET c == Context(gen_phase, device_name, data, all_loopbacks)
                IN  IF c.exc # ""
                    THEN /\ gen_exc' = c.exc
                         /\ gen_pc' = "raised"
                         /\ UNCHANGED <<fs, gen_out, gen_i>>
                    ELSE LET config == Render(phase_info.template, c.context)
                         IN  /\ IF gen_dry_run
                                THEN /\ gen_out' = Append(gen_out, <<"preview", device_name>>)
                                     /\ UNCHANGED fs
                                ELSE /\ fs' = [fs EXCEPT !.files =
                                                (<<phase_info.name, device_name>> :> config) @@ @]
                                     /\ gen_out' = Append(gen_out, <<"written", device_name>>)
                             /\ gen_pc' = next_pc
                             /\ gen_i' = gen_i + 1
                             /\ UNCHANGED gen_exc
    /\ UNCHANGED <<nb, gen_phase, gen_filter, gen_dry_run, all_loopbacks>>
    /\ UNCHANGED notGen

(***************************************************************************)
(* The inventories the generator is run against: the populated one, with   *)
(* up to MaxMissing phase devices absent and up to MaxDrift devices whose  *)
(* Loopback0 address has drifted from the designed one.  Only the devices  *)
(* of phases 1..3 are kept: the generator asks for no other.               *)
(***************************************************************************)

MaxMissing == 1
MaxDrift == 1
MaxPhaseArg == 4

IndexOf(x, s) == CHOOSE i \in 1..Len(s) : s[i] = x

\* a drifted address: 10.255.1.11 for core1, ..., 10.255.1.15 for core5
DriftLoopback(d) == Dotted(<<10, 255, 1, 10 + IndexOf(d, CoreDevices)>>)

SmallSubsets(S, n) == {T \in SUBSET S : Cardinality(T) <= n}

Inventory(present, drifted) ==
    [d \in present |->
        IF d \in drifted
        THEN <<NbIntf(Loopback0, <<DriftLoopback(d) \o <<"/">> \o IntStr(32)>>, "")>>
             \o Tail(PopulatedInterfaces(d))
        ELSE PopulatedInterfaces(d)]

Inventories ==
    { Inventory(SeqToSet(CoreDevices) \ missing, drifted) :
        missing \in SmallSubsets(SeqToSet(CoreDevices), MaxMissing),
        drifted \in SmallSubsets(SeqToSet(CoreDevices), MaxDrift) }

FilterChoices == {NoFilter, "core2", "core4", "inet-gw1"}

\* all_loopbacks as the loading loop leaves it
RECURSIVE AllLoopbacksOf(_, _, _)
AllLoopbacksOf(inv, devices, i) ==
    IF i = 0 THEN <<>>
    ELSE LoopbackStep(inv, AllLoopbacksOf(inv, devices, i - 1), devices[i])

InitGen ==
    /\ nb \in Inventories
    /\ gen_phase \in 1..MaxPhaseArg
    /\ gen_filter \in FilterChoices
    /\ gen_dry_run \in BOOLEAN
    /\ gen_pc = "start"
    /\ gen_i = 0
    /\ all_loopbacks = <<>>
    /\ gen_out = <<>>
    /\ gen_exc = ""
    /\ fs = EmptyFs
    /\ IdleBut({"inv", "fs", "gen"})

NextGen == GenStart \/ GenLoadLoopback \/ GenProcessDevice

SpecGen == InitGen /\ [][NextGen]_vars

(***************************************************************************)
(* get_bgp_neighbors called on its own, for any device name and any        *)
(* loopback map the loading loop can build.                                *)
(***************************************************************************)

BnNames == SeqToSet(CoreDevices) \cup {"inet-gw1", "main-agg1"}

InitBgp ==
    /\ bn_name \in BnNames
    /\ bn_map \in {AllLoopbacksOf(inv, CoreDevices, Len(CoreDevices)) : inv \in Inventories}
    /\ bn_out = Unset
    /\ IdleBut({"bn"})

BgpNeighborsCall ==
    /\ bn_out = Unset
    /\ bn_out' = get_bgp_neighbors(bn_name, bn_map)
    /\ UNCHANGED <<bn_name, bn_map>>
    /\ UNCHANGED notBn

NextBgp == BgpNeighborsCall

SpecBgp == InitBgp /\ [][NextBgp]_vars

(***************************************************************************)
(* tests/test_phase3_mpbgp_rr.py: the expected peers                       *)
(***************************************************************************)

EXPECTED_BGP_NEIGHBORS ==
    [r \in SeqToSet(CoreDevices) |->
        CASE r = "core1" -> <<Dotted(<<10, 255, 1, 2>>), Dotted(<<10, 255, 1, 3>>),
                              Dotted(<<10, 255, 1, 4>>), Dotted(<<10, 255, 1, 5>>)>>
          [] r = "core2" -> <<Dotted(<<10, 255, 1, 1>>), Dotted(<<10, 255, 1, 3>>),
                              Dotted(<<10, 255, 1, 4>>), Dotted(<<10, 255, 1, 5>>)>>
          [] r = "core3" -> <<Dotted(<<10, 255, 1, 1>>), Dotted(<<10, 255, 1, 2>>),
                              Dotted(<<10, 255, 1, 5>>)>>
          [] r = "core4" -> <<Dotted(<<10, 255, 1, 1>>), Dotted(<<10, 255, 1, 2>>),
                              Dotted(<<10, 255, 1, 5>>)>>
          [] r = "core5" -> <<Dotted(<<10, 255, 1, 1>>), Dotted(<<10, 255, 1, 2>>),
                              Dotted(<<10, 255, 1, 3>>), Dotted(<<10, 255, 1, 4>>)>>]

(***************************************************************************)
(* Route-reflector fan-out (C1)                                            *)
(***************************************************************************)

PeerIps(neighbors) == {neighbors[i].ip : i \in 1..Len(neighbors)}

\* neighbors holds exactly one entry per device of `peers', flagged as a
\* client exactly when `flag' says so
OneEntryPerPeer(neighbors, peers, map, flag(_)) ==
    /\ Len(neighbors) = Cardinality(peers)
    /\ \A o \in peers :
          /\ Cardinality({i \in 1..Len(neighbors) : neighbors[i].ip = DictGet(map, o)}) = 1
          /\ \A i \in 1..Len(neighbors) :
                neighbors[i].ip = DictGet(map, o) => neighbors[i].is_client = flag(o)

IsClient(o) == InSeq(o, RR_CLIENTS)
NeverClient(o) == FALSE

DesignedLoopbacks(map) == \A i \in 1..Len(map) : map[i].v = DEVICES[map[i].k].loopback

Phase3File(d) == <<PHASE_CONFIG[3].name, d>>

\* C1: with a loopback map covering exactly core1..core5, every route
\* reflector gets exactly one neighbor per other device (is_client exactly
\* for core3 and core4), every client exactly one neighbor per route
\* reflector with is_client false; no client lists another client; the
\* rendered configuration carries that list; and with the designed loopbacks
\* the peer addresses are those of EXPECTED_BGP_NEIGHBORS.
C1_RouteReflectorFanOut ==
    (gen_phase = 3 /\ gen_pc \in {"devices", "done"}
        /\ DictKeys(all_loopbacks) = SeqToSet(CoreDevices)) =>
    \A d \in SeqToSet(CoreDevices) :
        LET r == get_bgp_neighbors(d, all_loopbacks)
        IN  /\ r.exc = ""
            /\ InSeq(d, ROUTE_REFLECTORS) =>
                  OneEntryPerPeer(r.neighbors, SeqToSet(CoreDevices) \ {d},
                                  all_loopbacks, IsClient)
            /\ InSeq(d, RR_CLIENTS) =>
                  /\ OneEntryPerPeer(r.neighbors, SeqToSet(ROUTE_REFLECTORS),
                                     all_loopbacks, NeverClient)
                  /\ \A c \in SeqToSet(RR_CLIENTS) :
                        DictGet(all_loopbacks, c) \notin PeerIps(r.neighbors)
            /\ DesignedLoopbacks(all_loopbacks) =>
                  PeerIps(r.neighbors) = SeqToSet(EXPECTED_BGP_NEIGHBORS[d])
            /\ Phase3File(d) \in DOMAIN fs.files =>
                  fs.files[Phase3File(d)].context.bgp_neighbors = r.neighbors

C1_Witness ==
    /\ gen_phase = 3 /\ gen_pc = "done" /\ gen_filter = NoFilter
    /\ DesignedLoopbacks(all_loopbacks)
    /\ \A d \in SeqToSet(CoreDevices) : Phase3File(d) \in DOMAIN fs.files
    /\ Len(fs.files[Phase3File("core3")].context.bgp_neighbors) = 3
    /\ Len(fs.files[Phase3File("core1")].context.bgp_neighbors) = 4

(***************************************************************************)
(* Missing inventory data (C6)                                             *)
(***************************************************************************)

Printed(kind, d) == InSeq(<<kind, d>>, gen_out)

\* C6: when a device of the phase is absent from the inventory,
\* generate_phase_configs reports it and still produces a configuration
\* for every other device of the phase, and never ends by an exception.
C6_MissingDeviceReportedNotFatal ==
    /\ gen_pc # "raised"
    /\ (gen_pc = "done" /\ gen_phase \in DOMAIN PHASE_CONFIG /\ gen_filter = NoFilter) =>
          \A d \in SeqToSet(PHASE_CONFIG[gen_phase].devices) :
             IF d \in DOMAIN nb
             THEN Printed("written", d) \/ Printed("preview", d)
             ELSE Printed("error_not_found", d)

(***************************************************************************)
(* Unknown device (C7)                                                     *)
(***************************************************************************)

\* C7: get_bgp_neighbors for a device that is neither a route reflector nor
\* a client and is absent from the loopback map fails with
\* UnknownDeviceError and gives no neighbor list.
C7_UnknownDeviceRaises ==
    (bn_out # Unset
        /\ ~InSeq(bn_name, ROUTE_REFLECTORS) /\ ~InSeq(bn_name, RR_CLIENTS)
        /\ ~DictHas(bn_map, bn_name)) =>
    (bn_out.exc = "UnknownDeviceError" /\ bn_out.neighbors = <<>>)

(***************************************************************************)
(* Neighbor order (C8)                                                     *)
(***************************************************************************)

\* the four octets of a dotted-quad text, as numbers
Octets(ip) == [k \in 1..4 |-> ParseInt(Split(ip, ".")[k])]

\* a < b, octet by octet
IpLess(a, b) ==
    LET x == Octets(a)
        y == Octets(b)
    IN  \E k \in 1..4 : x[k] < y[k] /\ \A j \in 1..(k - 1) : x[j] = y[j]

AscendingByIp(neighbors) ==
    \A i \in 1..(Len(neighbors) - 1) : IpLess(neighbors[i].ip, neighbors[i + 1].ip)

\* C8: the neighbor list rendered into every phase-3 configuration is in
\* ascending numeric order of peer loopback address, whatever the inventory.
C8_NeighborsAscendingByLoopback ==
    \A d \in SeqToSet(CoreDevices) :
        Phase3File(d) \in DOMAIN fs.files =>
            AscendingByIp(fs.files[Phase3File(d)].context.bgp_neighbors)

\* C26: over a loopback map that covers core1..core5, the list
\* get_bgp_neighbors gives a device never holds the device's own loopback,
\* and it holds the loopback of another device exactly when that device's
\* list holds this one's
C26_PeeringSymmetricIrreflexive ==
    (bn_out # Unset /\ InSeq(bn_name, CoreDevices)
        /\ DictKeys(bn_map) = SeqToSet(CoreDevices)) =>
    /\ bn_out.exc = ""
    /\ DictGet(bn_map, bn_name) \notin PeerIps(bn_out.neighbors)
    /\ \A b \in SeqToSet(CoreDevices) \ {bn_name} :
          DictGet(bn_map, b) \in PeerIps(bn_out.neighbors)
             <=> DictGet(bn_map, bn_name)
                    \in PeerIps(get_bgp_neighbors(b, bn_map).neighbors)

C26_Witness ==
    /\ bn_out # Unset
    /\ bn_name = "core3"
    /\ DictKeys(bn_map) = SeqToSet(CoreDevices)
    /\ ~DesignedLoopbacks(bn_map)
    /\ PeerIps(bn_out.neighbors) = {DictGet(bn_map, d) : d \in SeqToSet(ROUTE_REFLECTORS)}

(***************************************************************************)
(* tests/test_phase3_mpbgp_rr.py: test_bgp_neighbors_established           *)
(***************************************************************************)

IdleText == <<"I", "d", "l", "e">>
ActiveText == <<"A", "c", "t", "i", "v", "e">>

test_bgp_neighbors_established_IdleOnly(router, output) ==
    LET expected_neighbors == EXPECTED_BGP_NEIGHBORS[router]
        lines == Split(output, "\n")
    IN  IF \E n \in 1..Len(expected_neighbors) : ~Contains(output, expected_neighbors[n])
        THEN "failed"
        ELSE IF \E l \in 1..Len(lines), n \in 1..Len(expected_neighbors) :
                    /\ Contains(lines[l], expected_neighbors[n])
                    /\ Contains(lines[l], IdleText)
        THEN "failed"
        ELSE "passed"

\* the first loop asserts every expected peer is in the output; the second
\* asserts, for every line and every expected peer in it, that the line has
\* neither 'Idle' nor 'Active'
test_bgp_neighbors_established(router, output) ==
    LET expected_neighbors == EXPECTED_BGP_NEIGHBORS[router]
        lines == Split(output, "\n")
    IN  IF \E n \in 1..Len(expected_neighbors) : ~Contains(output, expected_neighbors[n])
        THEN "failed"
        ELSE IF \E l \in 1..Len(lines), n \in 1..Len(expected_neighbors) :
                    /\ Contains(lines[l], expected_neighbors[n])
                    /\ ~(~Contains(lines[l], IdleText) /\ ~Contains(lines[l], ActiveText))
        THEN "failed"
        ELSE "passed"

\* TestBGPNeighbors.test_correct_bgp_neighbors: `for neighbor in expected:
\* assert neighbor in output`.  An assert that fails raises, which ends the
\* test: the neighbors after it are not looked at, and the one message is
\* all the test reports.
RECURSIVE CorrectNeighborsLoop(_, _, _, _)
CorrectNeighborsLoop(expected, output, n, checked) ==
    IF n > Len(expected)
    THEN [result |-> "passed", checked |-> checked, reported |-> <<>>]
    ELSE IF ~Contains(output, expected[n])
    THEN [result |-> "failed", checked |-> Append(checked, expected[n]),
          reported |-> <<expected[n]>>]
    ELSE CorrectNeighborsLoop(expected, output, n + 1, Append(checked, expected[n]))

test_correct_bgp_neighbors(router, output) ==
    CorrectNeighborsLoop(EXPECTED_BGP_NEIGHBORS[router], output, 1, <<>>)

\* TestBGPSessionState.test_all_sessions_established: one loop, which asserts
\* that every expected peer is in the output
test_all_sessions_established(router, output) ==
    LET expected == EXPECTED_BGP_NEIGHBORS[router]
    IN  IF \E n \in 1..Len(expected) : ~Contains(output, expected[n])
        THEN "failed"
        ELSE "passed"

(***************************************************************************)
(* The summary a router shows: a header, then one line per peer it has a   *)
(* session with (any of the core routers and inet-gw1), ending in the      *)
(* number of prefixes received when the session is established and in the  *)
(* state name, Idle or Active, when it is not.                             *)
(***************************************************************************)

SummaryPeers == <<"core1", "core2", "core3", "core4", "core5", "inet-gw1">>
SessionStates == {"absent", "up", "Idle", "Active"}

SummaryHeader == <<"N", "e", "i", "g", "h", "b", "o", "r">>

SummaryLine(peer, state) ==
    DEVICES[peer].loopback \o <<" ">> \o IntStr(BGP_AS) \o <<" ">>
    \o (CASE state = "up" -> IntStr(5)
          [] state = "Idle" -> IdleText
          [] state = "Active" -> ActiveText)

RECURSIVE SummaryLines(_, _)
SummaryLines(states, i) ==
    IF i > Len(SummaryPeers) THEN <<>>
    ELSE (IF states[SummaryPeers[i]] = "absent" THEN <<>>
          ELSE <<SummaryLine(SummaryPeers[i], states[SummaryPeers[i]])>>)
         \o SummaryLines(states, i + 1)

SummaryText(states) == Join(<<"\n">>, <<SummaryHeader>> \o SummaryLines(states, 1))

InitBgpTest ==
    /\ bt_router \in SeqToSet(CoreDevices)
    /\ bt_states \in [SeqToSet(SummaryPeers) -> SessionStates]
    /\ bt_output = SummaryText(bt_states)
    /\ bt_result = "unset"
    /\ bt_correct = Unset
    /\ bt_sessions = "unset"
    /\ IdleBut({"bt"})

BgpNeighborsEstablishedTest ==
    /\ bt_result = "unset"
    /\ bt_result' = test_bgp_neighbors_established(bt_router, bt_output)
    /\ UNCHANGED <<bt_router, bt_states, bt_output, bt_correct, bt_sessions>>
    /\ UNCHANGED notBt

CorrectBgpNeighborsTest ==
    /\ bt_result # "unset"
    /\ bt_correct = Unset
    /\ bt_correct' = test_correct_bgp_neighbors(bt_router, bt_output)
    /\ UNCHANGED <<bt_router, bt_states, bt_output, bt_result, bt_sessions>>
    /\ UNCHANGED notBt

\* the tests of the module run in the order of the file
AllSessionsEstablishedTest ==
    /\ bt_correct # Unset
    /\ bt_sessions = "unset"
    /\ bt_sessions' = test_all_sessions_established(bt_router, bt_output)
    /\ UNCHANGED <<bt_router, bt_states, bt_output, bt_result, bt_correct>>
    /\ UNCHANGED notBt

NextBgpTest ==
    \/ BgpNeighborsEstablishedTest
    \/ CorrectBgpNeighborsTest
    \/ AllSessionsEstablishedTest

SpecBgpTest == InitBgpTest /\ [][NextBgpTest]_vars

\* the devices whose loopbacks are the expected peers of a router
ExpectedPeers(router) ==
    {p \in SeqToSet(SummaryPeers) : InSeq(DEVICES[p].loopback, EXPECTED_BGP_NEIGHBORS[router])}

\* C10: test_bgp_neighbors_established fails whenever the summary line of an
\* expected peer shows Idle or Active, although the peer address is there;
\* it passes exactly when every expected peer has a line and none of those
\* lines shows Idle or Active.
C10_IdleOrActivePeerFails ==
    bt_result # "unset" =>
        /\ (\E p \in ExpectedPeers(bt_router) : bt_states[p] \in {"Idle", "Active"})
              => bt_result = "failed"
        /\ bt_result = "passed" <=> \A p \in ExpectedPeers(bt_router) : bt_states[p] = "up"
        /\ Cardinality(ExpectedPeers(bt_router)) = Len(EXPECTED_BGP_NEIGHBORS[bt_router])

C10_Witness ==
    /\ bt_result = "failed"
    /\ bt_router = "core3"
    /\ bt_states["core5"] = "Idle"
    /\ bt_states["core1"] = "up" /\ bt_states["core2"] = "up"
    /\ Contains(bt_output, DEVICES["core5"].loopback)

\* C13: the assertions on the expected neighbors of a router are independent:
\* every expected neighbor is checked and every missing one is reported,
\* whether or not an earlier one was missing.
C13_EveryMismatchReported ==
    bt_correct # Unset =>
        /\ bt_correct.checked = EXPECTED_BGP_NEIGHBORS[bt_router]
        /\ \A p \in ExpectedPeers(bt_router) :
              bt_states[p] = "absent" => InSeq(DEVICES[p].loopback, bt_correct.reported)

\* C11: test_all_sessions_established passes for a router only if every
\* expected session of the router is established; it fails when the summary
\* line of an expected peer shows Idle or Active.
C11_AllSessionsEstablished ==
    bt_sessions = "passed" => \A p \in ExpectedPeers(bt_router) : bt_states[p] = "up"

(***************************************************************************)
(* tests/test_phase<N>_*.py: the module-scoped connected_devices fixture   *)
(* and the tests that request it.  pytest runs the fixture function when   *)
(* the first test asks for it and hands its value to every test of the     *)
(* module: the yielded value of a generator, the return value of a plain   *)
(* function.  A fixture that raises during setup makes every test that     *)
(* requests it end in an error; the code after a yield runs after the last *)
(* test of the module.                                                     *)
(***************************************************************************)

TestModules == 1..8

CORE_ROUTERS == <<"core1", "core2", "core3", "core4", "core5">>
ALL_PHASE4_ROUTERS == <<"inet-gw1", "inet-gw2", "core1", "core2">>
ALL_PHASE5_ROUTERS == <<"main-agg1", "main-edge1", "main-edge2", "core1", "core2">>
ALL_PHASE6_ROUTERS == <<"med-agg1", "med-edge1", "med-edge2", "core2", "core3">>
ALL_PHASE7_ROUTERS == <<"res-agg1", "res-edge1", "res-edge2", "core4", "core5">>
PE_ROUTERS == <<"main-agg1", "med-agg1", "res-agg1">>

\* the list the fixture of test module m loops over
FixtureDevices(m) ==
    CASE m \in {1, 2, 3} -> CORE_ROUTERS
      [] m = 4 -> ALL_PHASE4_ROUTERS
      [] m = 5 -> ALL_PHASE5_ROUTERS
      [] m = 6 -> ALL_PHASE6_ROUTERS
      [] m = 7 -> ALL_PHASE7_ROUTERS
      [] m = 8 -> PE_ROUTERS

\* the fixture of test_phase1_core_ospf.py has no yield statement: it is a
\* plain function that returns None after its second loop
HasYield(m) == m # 1

MaxUnreachable == 1
MaxTestFns == 2

\* the tests of a module, in collection order: each test function once per
\* router; every one starts with device = connected_devices[router]
RECURSIVE ModuleTests(_, _)
ModuleTests(m, fn) ==
    IF fn > MaxTestFns THEN <<>>
    ELSE [i \in 1..Len(FixtureDevices(m)) |-> [fn |-> fn, router |-> FixtureDevices(m)[i]]]
         \o ModuleTests(m, fn + 1)

LogEntry(op, dev) == [op |-> op, dev |-> dev]

InitFixture ==
    /\ fx_module \in TestModules
    /\ fx_unreachable \in {S \in SUBSET SeqToSet(FixtureDevices(fx_module)) :
                              Cardinality(S) <= MaxUnreachable}
    /\ fx_pc = "setup"
    /\ fx_i = 1
    /\ fx_devices = <<>>
    /\ fx_value = "unset"
    /\ fx_open = {}
    /\ fx_log = <<>>
    /\ fx_results = <<>>
    /\ IdleBut({"fx"})

\* one pass of `for name in ...: device.connect(...); devices[name] = device`;
\* a connect that raises ends the fixture function
FixtureConnect ==
    /\ fx_pc = "setup"
    /\ fx_i <= Len(FixtureDevices(fx_module))
    /\ LET name == FixtureDevices(fx_module)[fx_i]
       IN  IF name \in fx_unreachable
           THEN /\ fx_value' = "error"
                /\ fx_pc' = "tests"
                /\ fx_log' = Append(fx_log, LogEntry("connect_raised", name))
                /\ UNCHANGED <<fx_i, fx_devices, fx_open>>
           ELSE /\ fx_open' = fx_open \cup {name}
                /\ fx_devices' = Append(fx_devices, name)
                /\ fx_log' = Append(fx_log, LogEntry("connect", name))
                /\ fx_i' = fx_i + 1
                /\ UNCHANGED <<fx_value, fx_pc>>
    /\ UNCHANGED <<fx_module, fx_unreachable, fx_results>>
    /\ UNCHANGED notFx

\* after the connect loop: `yield devices`, or, where there is no yield,
\* on to the disconnect loop
FixtureConnected ==
    /\ fx_pc = "setup"
    /\ fx_i > Len(FixtureDevices(fx_module))
    /\ IF HasYield(fx_module)
       THEN fx_value' = "devices" /\ fx_pc' = "tests" /\ UNCHANGED fx_i
       ELSE fx_pc' = "disconnect" /\ fx_i' = 1 /\ UNCHANGED fx_value
    /\ UNCHANGED <<fx_module, fx_unreachable, fx_devices, fx_open, fx_log, fx_results>>
    /\ UNCHANGED notFx

\* one pass of `for device in devices.values(): device.disconnect()`
FixtureDisconnect ==
    /\ fx_pc = "disconnect"
    /\ fx_i <= Len(fx_devices)
    /\ fx_open' = fx_open \ {fx_devices[fx_i]}
    /\ fx_log' = Append(fx_log, LogEntry("disconnect", fx_devices[fx_i]))
    /\ fx_i' = fx_i + 1
    /\ UNCHANGED <<fx_module, fx_unreachable, fx_pc, fx_devices, fx_value, fx_results>>
    /\ UNCHANGED notFx

\* the end of the fixture function: after a yield the module is finished;
\* without one the function returns None and the tests start
FixtureReturn ==
    /\ fx_pc = "disconnect"
    /\ fx_i > Len(fx_devices)
    /\ IF HasYield(fx_module)
       THEN fx_pc' = "done" /\ UNCHANGED fx_value
       ELSE fx_pc' = "tests" /\ fx_value' = "None"
    /\ UNCHANGED <<fx_module, fx_unreachable, fx_i, fx_devices, fx_open, fx_log, fx_results>>
    /\ UNCHANGED notFx

\* one test: `device = connected_devices[router]` then a query on the device
RunTest ==
    /\ fx_pc = "tests"
    /\ Len(fx_results) < Len(ModuleTests(fx_module, 1))
    /\ LET test == ModuleTests(fx_module, 1)[Len(fx_results) + 1]
       IN  CASE fx_value = "error" ->
                  /\ fx_results' = Append(fx_results, "error")
                  /\ UNCHANGED fx_log
             [] fx_value = "None" ->
                  /\ fx_results' = Append(fx_results, "TypeError")
                  /\ UNCHANGED fx_log
             [] fx_value = "devices" ->
                  /\ fx_results' = Append(fx_results, "evaluated")
                  /\ fx_log' = Append(fx_log, LogEntry("query", test.router))
    /\ UNCHANGED <<fx_module, fx_unreachable, fx_pc, fx_i, fx_devices, fx_value, fx_open>>
    /\ UNCHANGED notFx

\* after the last test pytest resumes a fixture that is suspended at its yield
TestsFinished ==
    /\ fx_pc = "tests"
    /\ Len(fx_results) = Len(ModuleTests(fx_module, 1))
    /\ IF fx_value = "devices"
       THEN fx_pc' = "disconnect" /\ fx_i' = 1
       ELSE fx_pc' = "done" /\ UNCHANGED fx_i
    /\ UNCHANGED <<fx_module, fx_unreachable, fx_devices, fx_value, fx_open, fx_log, fx_results>>
    /\ UNCHANGED notFx

NextFixture ==
    \/ FixtureConnect
    \/ FixtureConnected
    \/ FixtureDisconnect
    \/ FixtureReturn
    \/ RunTest
    \/ TestsFinished

SpecFixture == InitFixture /\ [][NextFixture]_vars

\* C4: when connecting to one device of a test module fails, the tests of
\* every other device of the module are still evaluated.
C4_UnreachableDeviceDoesNotAbortOthers ==
    (fx_pc = "done" /\ fx_unreachable # {}) =>
        \A k \in 1..Len(fx_results) :
            ModuleTests(fx_module, 1)[k].router \notin fx_unreachable
                => fx_results[k] = "evaluated"

\* C25: once the tests of a module have ended or been abandoned, no device
\* the fixture connected is still connected, also when the connect of a later
\* device raised
C25_ConnectedDevicesDisconnected ==
    fx_pc = "done" => fx_open = {}

\* C5: in every test module, with every device reachable, the tests are
\* handed a mapping from each device name to a connected device, every query
\* on a device comes after its connect, and no device is disconnected before
\* all tests of the module have run.
C5_FixtureHandsConnectedDevices ==
    fx_unreachable = {} =>
        /\ fx_pc = "tests" =>
              /\ fx_value = "devices"
              /\ SeqToSet(fx_devices) = SeqToSet(FixtureDevices(fx_module))
              /\ SeqToSet(fx_devices) \subseteq fx_open
        /\ \A i \in 1..Len(fx_log) :
              /\ fx_log[i].op = "query" =>
                    \E j \in 1..(i - 1) : fx_log[j] = LogEntry("connect", fx_log[i].dev)
              /\ fx_log[i].op = "disconnect" =>
                    Len(fx_results) = Len(ModuleTests(fx_module, 1))
        /\ fx_pc = "done" => Len(fx_log) > 0 /\ fx_log[Len(fx_log)].op = "disconnect"
                             /\ \E i \in 1..Len(fx_log) : fx_log[i].op = "query"

(***************************************************************************)
(* scripts/apply_configs.py                                                *)
(***************************************************************************)

PHASE_DIRS ==
    [p \in 1..9 |->
        CASE p = 1 -> "phase1_core_ospf"
          [] p = 2 -> "phase2_mpls_ldp"
          [] p = 3 -> "phase3_mpbgp_rr"
          [] p = 4 -> "phase4_inet_gw"
          [] p = 5 -> "phase5_main_campus"
          [] p = 6 -> "phase6_medical_campus"
          [] p = 7 -> "phase7_research_campus"
          [] p = 8 -> "phase8_vrfs_l3vpn"
          [] p = 9 -> "phase9_hsrp"]

\* sorted() on device names: Python compares strings character by character
\* by code point, a proper prefix before the longer string
CodePointOrder ==
    <<"-", "0", "1", "2", "3", "4", "5", "6", "7", "8", "9",
      "a", "b", "c", "d", "e", "f", "g", "h", "i", "j", "k", "l", "m",
      "n", "o", "p", "q", "r", "s", "t", "u", "v", "w", "x", "y", "z">>

Spell(name) ==
    CASE name = "core1" -> <<"c", "o", "r", "e", "1">>
      [] name = "core2" -> <<"c", "o", "r", "e", "2">>
      [] name = "core3" -> <<"c", "o", "r", "e", "3">>
      [] name = "core4" -> <<"c", "o", "r", "e", "4">>
      [] name = "core5" -> <<"c", "o", "r", "e", "5">>
      [] name = "inet-gw1" -> <<"i", "n", "e", "t", "-", "g", "w", "1">>

RECURSIVE TextLess(_, _)
TextLess(a, b) ==
    IF b = <<>> THEN FALSE
    ELSE IF a = <<>> THEN TRUE
    ELSE IF Head(a) = Head(b) THEN TextLess(Tail(a), Tail(b))
    ELSE IndexOf(Head(a), CodePointOrder) < IndexOf(Head(b), CodePointOrder)

RECURSIVE Sorted(_)
Sorted(names) ==
    IF names = {} THEN <<>>
    ELSE LET first == CHOOSE n \in names :
                          \A o \in names \ {n} : TextLess(Spell(n), Spell(o))
         IN  <<first>> \o Sorted(names \ {first})

\* the keys of the dict get_config_files returns, with the exit status when
\* it ends the process (-1 when it returns)
get_config_files(files, phase, device) ==
    IF phase \notin DOMAIN PHASE_DIRS
    THEN [exit |-> 1, error |-> "unknown_phase", configs |-> {}]
    ELSE IF PHASE_DIRS[phase] \notin files.dirs
    THEN [exit |-> 1, error |-> "no_directory", configs |-> {}]
    ELSE [exit |-> -1, error |-> "",
          configs |-> {n \in {f[2] : f \in {g \in DOMAIN files.files : g[1] = PHASE_DIRS[phase]}} :
                          ~(device # NoFilter /\ n # device)}]

apply_config_NoCleanup(device_name, fault) ==
    CASE fault = "none" ->
            [ok |-> TRUE,
             events |-> <<LogEntry("connect", device_name), LogEntry("configure", device_name),
                          LogEntry("execute", device_name), LogEntry("disconnect", device_name)>>]
      [] fault = "connect" ->
            [ok |-> FALSE,
             events |-> <<LogEntry("connect_raised", device_name), LogEntry("print_error", device_name)>>]
      [] fault = "configure" ->
            [ok |-> FALSE,
             events |-> <<LogEntry("connect", device_name), LogEntry("configure_raised", device_name),
                          LogEntry("print_error", device_name)>>]
      [] fault = "execute" ->
            [ok |-> FALSE,
             events |-> <<LogEntry("connect", device_name), LogEntry("configure", device_name),
                          LogEntry("execute_raised", device_name), LogEntry("print_error", device_name)>>]
      [] fault = "disconnect" ->
            [ok |-> FALSE,
             events |-> <<LogEntry("connect", device_name), LogEntry("configure", device_name),
                          LogEntry("execute", device_name), LogEntry("disconnect_raised", device_name),
                          LogEntry("print_error", device_name)>>]

\* apply_config with the first device call that raises ("none": none does);
\* the except branch prints the error and calls disconnect once more, and
\* an error from that call is swallowed
DeviceFaults == {"none", "connect", "configure", "execute", "disconnect"}

apply_config(device_name, fault) ==
    CASE fault = "none" ->
            [ok |-> TRUE,
             events |-> <<LogEntry("connect", device_name), LogEntry("configure", device_name),
                          LogEntry("execute", device_name), LogEntry("disconnect", device_name)>>]
      [] fault = "connect" ->
            [ok |-> FALSE,
             events |-> <<LogEntry("connect_raised", device_name), LogEntry("print_error", device_name),
                          LogEntry("disconnect", device_name)>>]
      [] fault = "configure" ->
            [ok |-> FALSE,
             events |-> <<LogEntry("connect", device_name), LogEntry("configure_raised", device_name),
                          LogEntry("print_error", device_name), LogEntry("disconnect", device_name)>>]
      [] fault = "execute" ->
            [ok |-> FALSE,
             events |-> <<LogEntry("connect", device_name), LogEntry("configure", device_name),
                          LogEntry("execute_raised", device_name), LogEntry("print_error", device_name),
                          LogEntry("disconnect", device_name)>>]
      [] fault = "disconnect" ->
            [ok |-> FALSE,
             events |-> <<LogEntry("connect", device_name), LogEntry("configure", device_name),
                          LogEntry("execute", device_name), LogEntry("disconnect_raised", device_name),
                          LogEntry("print_error", device_name), LogEntry("disconnect_raised", device_name)>>]

ApMain_IgnoresDryRun(phase, device, dry_run) ==
    /\ ap_pc \in {"idle", "exit"}
    /\ ap_phase' = phase /\ ap_device' = device /\ ap_dry_run' = dry_run
    /\ ap_success' = 0 /\ ap_failed' = 0 /\ ap_i' = 1
    /\ LET r == get_config_files(fs, phase, device)
           names == Sorted(r.configs)
       IN  IF r.exit = 1
           THEN /\ ap_log' = <<LogEntry("print_" \o r.error, "")>>
                /\ ap_configs' = <<>> /\ ap_pc' = "exit" /\ ap_exit' = 1
           ELSE IF r.configs = {}
           THEN /\ ap_log' = <<LogEntry("print_no_files", "")>>
                /\ ap_configs' = <<>> /\ ap_pc' = "exit" /\ ap_exit' = 1
           ELSE /\ ap_log' = [i \in 1..Len(names) |-> LogEntry("print_file", names[i])]
                /\ ap_configs' = names /\ ap_pc' = "apply" /\ ap_exit' = -1
    /\ UNCHANGED <<ap_testbed, ap_applied, fs>>
    /\ UNCHANGED notAp

\* main up to the device loop: arguments, testbed, get_config_files, the
\* empty check, the listing, and the whole dry-run branch
ApMain(phase, device, dry_run) ==
    /\ ap_pc \in {"idle", "exit"}
    /\ ap_phase' = phase /\ ap_device' = device /\ ap_dry_run' = dry_run
    /\ ap_success' = 0 /\ ap_failed' = 0 /\ ap_i' = 1
    /\ LET r == get_config_files(fs, phase, device)
           names == Sorted(r.configs)
       IN  IF r.exit = 1
           THEN /\ ap_log' = <<LogEntry("print_" \o r.error, "")>>
                /\ ap_configs' = <<>> /\ ap_pc' = "exit" /\ ap_exit' = 1
           ELSE IF r.configs = {}
           THEN /\ ap_log' = <<LogEntry("print_no_files", "")>>
                /\ ap_configs' = <<>> /\ ap_pc' = "exit" /\ ap_exit' = 1
           ELSE IF dry_run
           THEN /\ ap_log' = [i \in 1..Len(names) |-> LogEntry("print_file", names[i])]
                             \o [i \in 1..Len(names) |-> LogEntry("print_config", names[i])]
                /\ ap_configs' = names /\ ap_pc' = "exit" /\ ap_exit' = 0
           ELSE /\ ap_log' = [i \in 1..Len(names) |-> LogEntry("print_file", names[i])]
                /\ ap_configs' = names /\ ap_pc' = "apply" /\ ap_exit' = -1
    /\ UNCHANGED <<ap_testbed, ap_applied, fs>>
    /\ UNCHANGED notAp

ApplyDevice_StopsAtFailure ==
    /\ ap_pc = "apply"
    /\ LET device_name == ap_configs[ap_i]
       IN  \E fault \in DeviceFaults :
             LET skipped == device_name \notin ap_testbed
                 r == apply_config(device_name, fault)
                 ok == ~skipped /\ r.ok
                 failed == IF ok THEN ap_failed ELSE ap_failed + 1
             IN  /\ skipped => fault = "none"
                 /\ ap_log' = ap_log \o (IF skipped
                                         THEN <<LogEntry("print_not_in_testbed", device_name)>>
                                         ELSE r.events)
                 /\ ap_success' = IF ok THEN ap_success + 1 ELSE ap_success
                 /\ ap_failed' = failed
                 /\ IF ap_i < Len(ap_configs) /\ ok
                    THEN /\ ap_i' = ap_i + 1
                         /\ UNCHANGED <<ap_pc, ap_exit, ap_applied>>
                    ELSE /\ ap_pc' = "exit"
                         /\ ap_exit' = IF failed > 0 THEN 1 ELSE 0
                         /\ ap_applied' = IF failed = 0 THEN ap_applied \cup {ap_phase}
                                          ELSE ap_applied
                         /\ UNCHANGED ap_i
    /\ UNCHANGED <<ap_phase, ap_device, ap_dry_run, ap_testbed, ap_configs, fs>>
    /\ UNCHANGED notAp

\* one pass of the loop over sorted(configs.items()); after the last one the
\* summary and the exit status
ApplyDevice ==
    /\ ap_pc = "apply"
    /\ LET device_name == ap_configs[ap_i]
       IN  \E fault \in DeviceFaults :
             LET skipped == device_name \notin ap_testbed
                 r == apply_config(device_name, fault)
                 ok == ~skipped /\ r.ok
                 failed == IF ok THEN ap_failed ELSE ap_failed + 1
             IN  /\ skipped => fault = "none"
                 /\ ap_log' = ap_log \o (IF skipped
                                         THEN <<LogEntry("print_not_in_testbed", device_name)>>
                                         ELSE r.events)
                 /\ ap_success' = IF ok THEN ap_success + 1 ELSE ap_success
                 /\ ap_failed' = failed
                 /\ IF ap_i < Len(ap_configs)
                    THEN /\ ap_i' = ap_i + 1
                         /\ UNCHANGED <<ap_pc, ap_exit, ap_applied>>
                    ELSE /\ ap_pc' = "exit"
                         /\ ap_exit' = IF failed > 0 THEN 1 ELSE 0
                         /\ ap_applied' = IF failed = 0 THEN ap_applied \cup {ap_phase}
                                          ELSE ap_applied
                         /\ UNCHANGED ap_i
    /\ UNCHANGED <<ap_phase, ap_device, ap_dry_run, ap_testbed, ap_configs, fs>>
    /\ UNCHANGED notAp

(***************************************************************************)
(* The runs of apply_configs.py on a lab where no phase has been applied:  *)
(* configs/ holds the directories of phases 1..3 with the same device      *)
(* files in each, and testbed.yml knows all or some of the devices.        *)
(***************************************************************************)

HandConfig(d) == Render("", [device |-> d])

ConfigFileSets == {{}, {"core2", "core1"}, {"inet-gw1", "core1"}}
Testbeds == {{"core1", "core2", "inet-gw1"}, {"core1", "inet-gw1"}}
UnknownPhases == {0, 10}
ApplyPhases == (1..MaxPhaseArg) \cup UnknownPhases
ApplyFilters == {NoFilter, "core1", "core2"}

FsWith(names) ==
    [dirs  |-> {PHASE_CONFIG[p].name : p \in DOMAIN PHASE_CONFIG},
     files |-> [f \in {PHASE_CONFIG[p].name : p \in DOMAIN PHASE_CONFIG} \X names
                   |-> HandConfig(f[2])]]

InitApply ==
    /\ fs \in {FsWith(names) : names \in ConfigFileSets}
    /\ ap_testbed \in Testbeds
    /\ ap_phase = 0 /\ ap_device = NoFilter /\ ap_dry_run = FALSE
    /\ ap_pc = "idle"
    /\ ap_configs = <<>> /\ ap_i = 0 /\ ap_success = 0 /\ ap_failed = 0
    /\ ap_exit = -1 /\ ap_log = <<>> /\ ap_applied = {}
    /\ IdleBut({"fs", "ap"})

NextApply ==
    \/ \E phase \in ApplyPhases, device \in ApplyFilters, dry_run \in BOOLEAN :
           ApMain(phase, device, dry_run)
    \/ ApplyDevice

SpecApply == InitApply /\ [][NextApply]_vars

\* C2: a run that applies phase N connects to a device only when every
\* predecessor phase 1..N-1 has been applied; on a lab where phases 1 and 2
\* have not been applied, a run for phase 3 ends before any connect.
C2_PhaseDependencyGating ==
    \A i \in 1..Len(ap_log) :
        ap_log[i].op \in {"connect", "connect_raised"} =>
            \A q \in 1..(ap_phase - 1) : q \in ap_applied

\* what apply_config and the fixture call on a device, raising or not
DeviceCallOps ==
    {"connect", "configure", "execute", "disconnect",
     "connect_raised", "configure_raised", "execute_raised", "disconnect_raised"}

\* C19: a run with --dry-run calls nothing on any device, whatever the
\* phase and the device filter: it has ended as soon as main has printed,
\* counts no success and no failure, and when it found configurations it
\* has printed each of them and ends with status 0
C19_DryRunAppliesNothing ==
    ap_dry_run =>
        /\ ap_pc = "exit"
        /\ \A i \in 1..Len(ap_log) : ap_log[i].op \notin DeviceCallOps
        /\ ap_success = 0 /\ ap_failed = 0
        /\ ap_configs # <<>> =>
              /\ ap_exit = 0
              /\ \A k \in 1..Len(ap_configs) :
                    \E i \in 1..Len(ap_log) :
                       ap_log[i] = LogEntry("print_config", ap_configs[k])

C19_Witness ==
    /\ ap_dry_run
    /\ ap_pc = "exit"
    /\ Len(ap_configs) = 2
    /\ ap_device = NoFilter
    /\ \E i \in 1..Len(ap_log) : ap_log[i].op = "print_config"

\* the order of the four device calls of apply_config
ApplyOrder == <<"connect", "configure", "execute", "disconnect">>

Ops(events) == [i \in 1..Len(events) |-> events[i].op]

\* one full attempt, or the calls before the one that raised, that call, the
\* printed error and one more disconnect attempt
WellFormedAttempt(r) ==
    IF r.ok THEN Ops(r.events) = ApplyOrder
    ELSE \E k \in 1..Len(ApplyOrder), last \in {"disconnect", "disconnect_raised"} :
            Ops(r.events) = SubSeq(ApplyOrder, 1, k - 1)
                            \o <<ApplyOrder[k] \o "_raised", "print_error", last>>

\* C22: apply_config calls connect, configure, execute and disconnect in that
\* order and returns True exactly when none of them raises; when one raises
\* it prints the error, attempts disconnect once more and returns False; in
\* the log of a run every connect attempt on a device is followed by a
\* disconnect attempt on it, and the successes counted are the devices whose
\* four calls completed
C22_ApplyConfigOrderAndCleanup ==
    /\ \A fault \in DeviceFaults :
          /\ WellFormedAttempt(apply_config("core1", fault))
          /\ apply_config("core1", fault).ok <=> fault = "none"
    /\ \A i \in 1..Len(ap_log) :
          /\ ap_log[i].op \in {"connect", "connect_raised"} =>
                \E j \in (i + 1)..Len(ap_log) :
                   /\ ap_log[j].dev = ap_log[i].dev
                   /\ ap_log[j].op \in {"disconnect", "disconnect_raised"}
          /\ ap_log[i].op \in {"configure", "configure_raised"} =>
                ap_log[i - 1] = LogEntry("connect", ap_log[i].dev)
          /\ ap_log[i].op \in {"execute", "execute_raised"} =>
                ap_log[i - 1] = LogEntry("configure", ap_log[i].dev)
          /\ (ap_log[i].op \in {"disconnect", "disconnect_raised"}
                /\ ap_log[i - 1].op # "print_error") =>
                ap_log[i - 1] = LogEntry("execute", ap_log[i].dev)
    /\ ap_success = Cardinality({i \in 1..Len(ap_log) :
                                   /\ ap_log[i].op = "disconnect"
                                   /\ ap_log[i - 1].op = "execute"})

C22_Witness ==
    /\ ap_pc = "exit"
    /\ ap_success = 1
    /\ ap_failed = 1
    /\ \E i \in 1..Len(ap_log) : ap_log[i].op = "configure_raised"

\* where the run starts on a device: a connect attempt or the skip message
AttemptOps == {"connect", "connect_raised", "print_not_in_testbed"}

\* the devices of the log's attempts, in the order of the log
RECURSIVE AttemptedDevices(_, _)
AttemptedDevices(log, i) ==
    IF i > Len(log) THEN <<>>
    ELSE (IF log[i].op \in AttemptOps THEN <<log[i].dev>> ELSE <<>>)
         \o AttemptedDevices(log, i + 1)

\* C23: a run of main without --dry-run goes through the devices that have a
\* config file in ascending order of their names, each once, whatever
\* happens on the earlier ones; a device that is not in the testbed is
\* counted as failed without a connect; when the run ends success + failed
\* is the number of config files and the exit status is 1 exactly when
\* failed > 0
C23_EveryDeviceAttemptedOnceInOrder ==
    (~ap_dry_run /\ ap_configs # <<>>) =>
        /\ SeqToSet(ap_configs) = get_config_files(fs, ap_phase, ap_device).configs
        /\ Len(ap_configs) = Cardinality(SeqToSet(ap_configs))
        /\ \A k, l \in 1..Len(ap_configs) :
              k < l => TextLess(Spell(ap_configs[k]), Spell(ap_configs[l]))
        /\ AttemptedDevices(ap_log, 1)
              = SubSeq(ap_configs, 1, IF ap_pc = "exit" THEN Len(ap_configs) ELSE ap_i - 1)
        /\ \A i \in 1..Len(ap_log) :
              ap_log[i].op \in {"connect", "connect_raised"} => ap_log[i].dev \in ap_testbed
        /\ ap_failed >= Cardinality({i \in 1..Len(ap_log) : ap_log[i].op = "print_not_in_testbed"})
        /\ ap_pc = "apply" => ap_success + ap_failed = ap_i - 1 /\ ap_exit = -1
        /\ ap_pc = "exit" =>
              /\ ap_success + ap_failed = Len(ap_configs)
              /\ ap_exit = (IF ap_failed > 0 THEN 1 ELSE 0)

C23_Witness ==
    /\ ~ap_dry_run
    /\ ap_pc = "exit"
    /\ ap_configs = <<"core1", "core2">>
    /\ "core2" \notin ap_testbed
    /\ ap_failed = 2
    /\ ap_exit = 1
    /\ InSeq(LogEntry("connect_raised", "core1"), ap_log)
    /\ InSeq(LogEntry("print_not_in_testbed", "core2"), ap_log)

(***************************************************************************)
(* The lab the phase tests look at, and the OSPF assertions of the phase   *)
(* 1, 4, 5, 6 and 7 test modules.  A phase configures OSPF on both ends of *)
(* its links (the tests of phases 4..7 check `ip ospf 1 area 0` on the     *)
(* core side too); once a phase is applied its links form adjacencies, and *)
(* a router then lists the router-id of the other end in state FULL.       *)
(***************************************************************************)

OspfPhases == {1, 4, 5, 6, 7}

EXPECTED_NEIGHBORS ==
    [r \in SeqToSet(CORE_ROUTERS) |->
        CASE r = "core1" -> <<Dotted(<<10, 255, 1, 2>>), Dotted(<<10, 255, 1, 5>>)>>
          [] r = "core2" -> <<Dotted(<<10, 255, 1, 1>>), Dotted(<<10, 255, 1, 3>>)>>
          [] r = "core3" -> <<Dotted(<<10, 255, 1, 2>>), Dotted(<<10, 255, 1, 4>>)>>
          [] r = "core4" -> <<Dotted(<<10, 255, 1, 3>>), Dotted(<<10, 255, 1, 5>>)>>
          [] r = "core5" -> <<Dotted(<<10, 255, 1, 4>>), Dotted(<<10, 255, 1, 1>>)>>]

\* the LOOPBACKS tables of the phase 4..7 test modules
LOOPBACKS ==
    [r \in {"core1", "core2", "core3", "core4", "core5", "inet-gw1", "inet-gw2",
            "main-agg1", "main-edge1", "main-edge2", "med-agg1", "med-edge1", "med-edge2",
            "res-agg1", "res-edge1", "res-edge2"} |->
        CASE r = "core1" -> Dotted(<<10, 255, 1, 1>>)
          [] r = "core2" -> Dotted(<<10, 255, 1, 2>>)
          [] r = "core3" -> Dotted(<<10, 255, 1, 3>>)
          [] r = "core4" -> Dotted(<<10, 255, 1, 4>>)
          [] r = "core5" -> Dotted(<<10, 255, 1, 5>>)
          [] r = "inet-gw1" -> Dotted(<<10, 255, 0, 1>>)
          [] r = "inet-gw2" -> Dotted(<<10, 255, 0, 2>>)
          [] r = "main-agg1" -> Dotted(<<10, 255, 10, 1>>)
          [] r = "main-edge1" -> Dotted(<<10, 255, 10, 2>>)
          [] r = "main-edge2" -> Dotted(<<10, 255, 10, 3>>)
          [] r = "med-agg1" -> Dotted(<<10, 255, 20, 1>>)
          [] r = "med-edge1" -> Dotted(<<10, 255, 20, 2>>)
          [] r = "med-edge2" -> Dotted(<<10, 255, 20, 3>>)
          [] r = "res-agg1" -> Dotted(<<10, 255, 30, 1>>)
          [] r = "res-edge1" -> Dotted(<<10, 255, 30, 2>>)
          [] r = "res-edge2" -> Dotted(<<10, 255, 30, 3>>)]

\* the links a phase brings up: those between two routers of the phase's
\* test module, the core ring belonging to phase 1 only
InPhase(i, p) ==
    /\ InSeq(LINKS[i].dev_a, FixtureDevices(p))
    /\ InSeq(LINKS[i].dev_b, FixtureDevices(p))
    /\ p # 1 => ~(InSeq(LINKS[i].dev_a, CORE_ROUTERS) /\ InSeq(LINKS[i].dev_b, CORE_ROUTERS))

\* per entry of LINKS, the phase that brings it up (0: none of them)
RECURSIVE LinkPhasesFrom(_)
LinkPhasesFrom(i) ==
    IF i > Len(LINKS) THEN <<>>
    ELSE <<IF \E p \in OspfPhases : InPhase(i, p)
           THEN CHOOSE p \in OspfPhases : InPhase(i, p) ELSE 0>>
         \o LinkPhasesFrom(i + 1)

LINK_PHASE == LinkPhasesFrom(1)

PhaseLinks(p) == {i \in 1..Len(LINKS) : LINK_PHASE[i] = p}

FullLinks_SideAOnly(r, converged) ==
    {i \in 1..Len(LINKS) : LINK_PHASE[i] \in converged /\ LINKS[i].dev_a = r}

\* the links of router r that carry an adjacency
FullLinks(r, converged) ==
    {i \in 1..Len(LINKS) : /\ LINK_PHASE[i] \in converged
                           /\ (LINKS[i].dev_a = r \/ LINKS[i].dev_b = r)}

\* device.parse('show ip ospf neighbor') on router r: per interface, the
\* neighbors with their state
OspfNeighborEntry(r, i) ==
    IF LINKS[i].dev_a = r
    THEN [intf |-> LINKS[i].intf_a, neighbor_id |-> DEVICES[LINKS[i].dev_b].loopback,
          address |-> Split(LINKS[i].ip_b, "/")[1], state |-> <<"F", "U", "L", "L", "/", " ", " ", "-">>]
    ELSE [intf |-> LINKS[i].intf_b, neighbor_id |-> DEVICES[LINKS[i].dev_a].loopback,
          address |-> Split(LINKS[i].ip_a, "/")[1], state |-> <<"F", "U", "L", "L", "/", " ", " ", "-">>]

ParsedOspfNeighbors(r, converged) ==
    {OspfNeighborEntry(r, i) : i \in FullLinks(r, converged)}

\* device.execute('show ip ospf neighbor') on router r: a header and one
\* line per neighbor
RECURSIVE OspfNeighborLines(_, _, _)
OspfNeighborLines(r, converged, i) ==
    IF i > Len(LINKS) THEN <<>>
    ELSE (IF LINK_PHASE[i] \in converged /\ (LINKS[i].dev_a = r \/ LINKS[i].dev_b = r)
          THEN LET e == OspfNeighborEntry(r, i)
               IN  <<e.neighbor_id \o <<" ">> \o e.state \o <<" ">> \o e.address
                     \o <<" ", "G", "i">> \o IntStr(e.intf.num)>>
          ELSE <<>>)
         \o OspfNeighborLines(r, converged, i + 1)

OspfNeighborText(r, converged) ==
    Join(<<"\n">>, <<SummaryHeader>> \o OspfNeighborLines(r, converged, 1))

FullText == <<"F", "U", "L", "L">>

\* test_phase1_core_ospf.py, TestOSPFNeighbors
test_ospf_neighbor_count(router, converged) ==
    Cardinality(ParsedOspfNeighbors(router, converged)) = 2

test_ospf_neighbors_full(router, converged) ==
    \A n \in ParsedOspfNeighbors(router, converged) : Contains(n.state, FullText)

test_correct_ospf_neighbors(router, converged) ==
    {n.neighbor_id : n \in ParsedOspfNeighbors(router, converged)}
        = SeqToSet(EXPECTED_NEIGHBORS[router])

\* test_phase4_inet_gw.py, test_ospf_neighbor_established
InetGwPeer(router) == IF router = "inet-gw1" THEN "core1" ELSE "core2"

test_ospf_neighbor_established(router, converged) ==
    LET output == OspfNeighborText(router, converged)
    IN  Contains(output, LOOPBACKS[InetGwPeer(router)]) /\ Contains(output, FullText)

\* test_phase5/6/7: test_<campus>_agg1_ospf_neighbors and
\* test_edge_ospf_neighbors; the module's list is agg1, edge1, edge2 and
\* the two core routers
test_agg1_ospf_neighbors(p, converged) ==
    LET rs == FixtureDevices(p)
        output == OspfNeighborText(rs[1], converged)
    IN  \A k \in {4, 5, 2, 3} : Contains(output, LOOPBACKS[rs[k]])

test_edge_ospf_neighbors(p, router, converged) ==
    Contains(OspfNeighborText(router, converged), LOOPBACKS[FixtureDevices(p)[1]])

\* the OSPF neighbor assertions of the test module of phase p
OspfAssertionsPass(p, converged) ==
    CASE p = 1 -> \A r \in SeqToSet(CORE_ROUTERS) :
                      /\ test_ospf_neighbor_count(r, converged)
                      /\ test_ospf_neighbors_full(r, converged)
                      /\ test_correct_ospf_neighbors(r, converged)
      [] p = 4 -> \A r \in {"inet-gw1", "inet-gw2"} :
                      test_ospf_neighbor_established(r, converged)
      [] OTHER -> /\ test_agg1_ospf_neighbors(p, converged)
                  /\ \A k \in {2, 3} :
                        test_edge_ospf_neighbors(p, FixtureDevices(p)[k], converged)

InitNet ==
    /\ net_applied = {}
    /\ net_converged = {}
    /\ net_val = [p \in OspfPhases |-> "unset"]
    /\ IdleBut({"net"})

\* apply_configs.py --phase p has configured the devices of phase p
NetApplyPhase(p) ==
    /\ p \notin net_applied
    /\ net_applied' = net_applied \cup {p}
    /\ UNCHANGED <<net_converged, net_val>>
    /\ UNCHANGED notNet

\* the links of an applied phase have formed their adjacencies
NetConverge(p) ==
    /\ p \in net_applied
    /\ p \notin net_converged
    /\ net_converged' = net_converged \cup {p}
    /\ UNCHANGED <<net_applied, net_val>>
    /\ UNCHANGED notNet

\* pytest tests/test_phase<p>_*.py: the outcome of its OSPF neighbor tests
NetValidate(p) ==
    /\ net_val' = [net_val EXCEPT ![p] =
                      IF OspfAssertionsPass(p, net_converged) THEN "passed" ELSE "failed"]
    /\ net_val'[p] # net_val[p]
    /\ UNCHANGED <<net_applied, net_converged>>
    /\ UNCHANGED notNet

NextNet ==
    \E p \in OspfPhases :
        \/ NetApplyPhase(p)
        \/ NetConverge(p)
        \/ NetValidate(p)

SpecNet == InitNet /\ [][NextNet]_vars

\* C3: once phase 1 has been validated, on a lab where phase 4, 5, 6 or 7
\* has been applied and its own validation has passed, the phase-1 OSPF
\* assertions (exactly two neighbors per core router, all FULL, the ring
\* neighbors) still pass.
C3_ValidatedPhaseDoesNotRegress ==
    (/\ net_val[1] = "passed"
     /\ \E p \in OspfPhases \ {1} : p \in net_applied /\ net_val[p] = "passed")
        => OspfAssertionsPass(1, net_converged)

(***************************************************************************)
(* tests/test_phase2_mpls_ldp.py: test_ldp_neighbors_operational           *)
(***************************************************************************)

StateOperText == <<"S", "t", "a", "t", "e", ":", " ", "O", "p", "e", "r">>

\* one assertion on the whole output: 'State: Oper' in output
test_ldp_neighbors_operational(router, output) ==
    IF Contains(output, StateOperText) THEN "passed" ELSE "failed"

(***************************************************************************)
(* 'show mpls ldp neighbor' on a core router: per neighbor a block of two  *)
(* lines, the peer identifier and the state of the session, Oper once it   *)
(* is operational and Non Ex before.                                       *)
(***************************************************************************)

LdpPeers == CORE_ROUTERS
LdpStates == {"absent", "Oper", "Non Ex"}

LdpBlock(peer, state) ==
    <<<<"P", "e", "e", "r", " ", "L", "D", "P", " ", "I", "d", "e", "n", "t", ":", " ">> \o DEVICES[peer].loopback \o <<":", "0">>,
      <<"S", "t", "a", "t", "e", ":", " ">> \o (IF state = "Oper" THEN <<"O", "p", "e", "r">> ELSE <<"N", "o", "n", " ", "E", "x">>)>>

RECURSIVE LdpLines(_, _)
LdpLines(states, i) ==
    IF i > Len(LdpPeers) THEN <<>>
    ELSE (IF states[LdpPeers[i]] = "absent" THEN <<>>
          ELSE LdpBlock(LdpPeers[i], states[LdpPeers[i]]))
         \o LdpLines(states, i + 1)

LdpNeighborText(states) == Join(<<"\n">>, LdpLines(states, 1))

InitLdpTest ==
    /\ ld_router \in SeqToSet(CORE_ROUTERS)
    /\ ld_states \in {f \in [SeqToSet(LdpPeers) -> LdpStates] : f[ld_router] = "absent"}
    /\ ld_output = LdpNeighborText(ld_states)
    /\ ld_result = "unset"
    /\ IdleBut({"ld"})

LdpNeighborsOperationalTest ==
    /\ ld_result = "unset"
    /\ ld_result' = test_ldp_neighbors_operational(ld_router, ld_output)
    /\ UNCHANGED <<ld_router, ld_states, ld_output>>
    /\ UNCHANGED notLd

NextLdpTest == LdpNeighborsOperationalTest

SpecLdpTest == InitLdpTest /\ [][NextLdpTest]_vars

\* C12: test_ldp_neighbors_operational passes for a router only if every LDP
\* neighbor in the output is operational; an output with one operational
\* neighbor and one that is not fails.
C12_EveryLdpNeighborOperational ==
    ld_result = "passed" =>
        \A p \in SeqToSet(LdpPeers) : ld_states[p] # "absent" => ld_states[p] = "Oper"

(***************************************************************************)
(* scripts/netbox_populate.py: get_or_create and main, against a NetBox    *)
(* server that starts empty.  An object is identified by what the script   *)
(* searches it by: a device by its name, an interface by device and name,  *)
(* an address by its text, a cable by its A termination.                   *)
(***************************************************************************)

MaxRuns == 2
MaxCableFaults == 1

get_or_create_AlwaysCreates(collection, matches, new) ==
    [objects |-> collection \cup {new}, created |-> 1, object |-> new]

\* get_or_create on a collection kept as a set: the matches of the search,
\* and the collection with the new object when there is none
get_or_create(collection, matches, new) ==
    IF matches # {}
    THEN [objects |-> collection, created |-> 0, object |-> CHOOSE o \in matches : TRUE]
    ELSE [objects |-> collection \cup {new}, created |-> 1, object |-> new]

IpObject(address, intf) == [address |-> address, intf |-> intf]

\* get_or_create(nb.ipam.ip_addresses, search_params={'address': ...}, ...)
IpGetOrCreate(ips, address, intf) ==
    get_or_create(ips, {ip \in ips : ip.address = address}, IpObject(address, intf))

IntfGetOrCreate_ByDeviceOnly(intfs, device, name) ==
    get_or_create(intfs, {x \in intfs : x[1] = device}, <<device, name>>)

\* get_or_create(nb.dcim.interfaces, search_params={'device_id', 'name'}, ...)
IntfGetOrCreate(intfs, device, name) ==
    get_or_create(intfs, {x \in intfs : x = <<device, name>>}, <<device, name>>)

MiscObjects ==
    {"site", "manufacturer", "device_type",
     "role:core", "role:gateway", "role:aggregation", "role:edge", "role:access"}

Count(created, kind, n) == [created EXCEPT ![kind] = @ + n]

\* main from its start to the device loop: site, manufacturer, device type, roles
PopMain ==
    /\ pop_pc \in {"idle", "done"}
    /\ pop_run < MaxRuns
    /\ pop_run' = pop_run + 1
    /\ pop_misc' = pop_misc \cup MiscObjects
    /\ pop_created' = Count(NothingCreated, "misc", Cardinality(MiscObjects \ pop_misc))
    /\ pop_out' = <<>>
    /\ pop_pc' = "devices"
    /\ pop_i' = 1
    /\ UNCHANGED <<pop_faults, pop_devices, pop_intfs, pop_ips, pop_cables>>
    /\ UNCHANGED notPop

\* one pass of `for device_name, info in DEVICES.items()`
PopDevice ==
    /\ pop_pc = "devices"
    /\ LET device_name == DeviceNames[pop_i]
           info == DEVICES[device_name]
           lo0 == IntfGetOrCreate(pop_intfs, device_name, Loopback0)
           lo_ip == IpGetOrCreate(pop_ips, info.loopback \o <<"/">> \o IntStr(32), lo0.object)
           gi1 == IntfGetOrCreate(lo0.objects, device_name, Gi(1))
           mgmt_ip == IpGetOrCreate(lo_ip.objects, info.mgmt \o <<"/">> \o IntStr(24), gi1.object)
       IN  /\ pop_devices' = (device_name :> mgmt_ip.object.address) @@ pop_devices
           /\ pop_intfs' = gi1.objects
           /\ pop_ips' = mgmt_ip.objects
           /\ pop_created' =
                 Count(Count(Count(pop_created,
                                   "devices", IF device_name \in DOMAIN pop_devices THEN 0 ELSE 1),
                             "interfaces", lo0.created + gi1.created),
                       "ips", lo_ip.created + mgmt_ip.created)
    /\ IF pop_i < Len(DeviceNames)
       THEN pop_i' = pop_i + 1 /\ UNCHANGED pop_pc
       ELSE pop_i' = 1 /\ pop_pc' = "links"
    /\ UNCHANGED <<pop_run, pop_faults, pop_misc, pop_cables, pop_out>>
    /\ UNCHANGED notPop

\* the server accepts a cable only between interfaces that have none
Cabled(cables, intf) == \E c \in cables : c.a = intf \/ c.b = intf

\* one pass of `for link in LINKS`; after the last one the closing prints
PopLink ==
    /\ pop_pc = "links"
    /\ LET link == LINKS[pop_i]
           int_a == IntfGetOrCreate(pop_intfs, link.dev_a, link.intf_a)
           int_b == IntfGetOrCreate(int_a.objects, link.dev_b, link.intf_b)
           ip_a == IpGetOrCreate(pop_ips, link.ip_a, int_a.object)
           ip_b == IpGetOrCreate(ip_a.objects, link.ip_b, int_b.object)
           existing_cables == {c \in pop_cables : c.a = int_a.object}
       IN  /\ pop_intfs' = int_b.objects
           /\ pop_ips' = ip_b.objects
           /\ \E refused \in BOOLEAN :
                /\ refused => existing_cables = {} /\ pop_faults < MaxCableFaults
                /\ pop_faults' = IF refused THEN pop_faults + 1 ELSE pop_faults
                /\ LET raises == \/ refused
                                 \/ Cabled(pop_cables, int_a.object)
                                 \/ Cabled(pop_cables, int_b.object)
                       made == existing_cables = {} /\ ~raises
                   IN  /\ pop_cables' = IF made
                                        THEN pop_cables \cup {[a |-> int_a.object, b |-> int_b.object]}
                                        ELSE pop_cables
                       /\ pop_out' = IF existing_cables = {} /\ raises
                                     THEN Append(pop_out, pop_i) ELSE pop_out
                       /\ pop_created' =
                             Count(Count(Count(pop_created,
                                               "interfaces", int_a.created + int_b.created),
                                         "ips", ip_a.created + ip_b.created),
                                   "cables", IF made THEN 1 ELSE 0)
    /\ IF pop_i < Len(LINKS)
       THEN pop_i' = pop_i + 1 /\ UNCHANGED pop_pc
       ELSE pop_pc' = "done" /\ UNCHANGED pop_i
    /\ UNCHANGED <<pop_run, pop_misc, pop_devices>>
    /\ UNCHANGED notPop

InitPopulate == IdleBut({})

NextPopulate == PopMain \/ PopDevice \/ PopLink

SpecPopulate == InitPopulate /\ [][NextPopulate]_vars

\* the address and the prefix length of a text such as 10.0.0.0/31
AddrValue(ip) ==
    LET o == Octets(Split(ip, "/")[1])
    IN  ((o[1] * 256 + o[2]) * 256 + o[3]) * 256 + o[4]

PrefixLen(ip) == ParseInt(Split(ip, "/")[2])

\* the two hosts of one /31: both prefixes 31, the same upper 31 bits, the
\* last bit different
HostsOfOneSlash31(ip_a, ip_b) ==
    /\ PrefixLen(ip_a) = 31
    /\ PrefixLen(ip_b) = 31
    /\ AddrValue(ip_a) \div 2 = AddrValue(ip_b) \div 2
    /\ AddrValue(ip_a) % 2 # AddrValue(ip_b) % 2

AddressesOn(ips, intf) == {ip.address : ip \in {x \in ips : x.intf = intf}}

MispairedLinks == {i \in 1..Len(LINKS) : ~HostsOfOneSlash31(LINKS[i].ip_a, LINKS[i].ip_b)}

\* C14: every entry of LINKS, all 28 of them, pairs the two hosts of one /31,
\* and so do the addresses main puts on the two ends of every cable
C14_LinksPairOneSlash31 ==
    /\ Len(LINKS) = 28
    /\ MispairedLinks = {}
    /\ \A c \in pop_cables :
          \A x \in AddressesOn(pop_ips, c.a), y \in AddressesOn(pop_ips, c.b) :
             HostsOfOneSlash31(x, y)

C14_Witness ==
    /\ pop_pc = "done"
    /\ Cardinality(pop_cables) = Len(LINKS)
    /\ \A c \in pop_cables :
          AddressesOn(pop_ips, c.a) # {} /\ AddressesOn(pop_ips, c.b) # {}

\* the (device, interface) pairs of LINKS, two per entry
LinkEndpoint(i, side) ==
    IF side = "a" THEN <<LINKS[i].dev_a, LINKS[i].intf_a>>
    ELSE <<LINKS[i].dev_b, LINKS[i].intf_b>>

LinkSides == (1..Len(LINKS)) \X {"a", "b"}

\* the pairs of distinct places of LINKS that name the same interface
SharedEndpoints ==
    {p \in LinkSides \X LinkSides :
        p[1] # p[2] /\ LinkEndpoint(p[1][1], p[1][2]) = LinkEndpoint(p[2][1], p[2][2])}

CablesOn(cables, intf) == {c \in cables : c.a = intf \/ c.b = intf}

LinkAddressesOn(ips, intf) == {a \in AddressesOn(ips, intf) : PrefixLen(a) = 31}

\* C15: no (device, interface) pair is an endpoint of two LINKS entries, and
\* while and after main runs every interface terminates at most one cable
\* and carries at most one link address
C15_OneCableOneAddressPerInterface ==
    /\ SharedEndpoints = {}
    /\ \A intf \in pop_intfs :
          /\ Cardinality(CablesOn(pop_cables, intf)) <= 1
          /\ Cardinality(LinkAddressesOn(pop_ips, intf)) <= 1

C15_Witness ==
    /\ pop_pc = "done"
    /\ pop_run > 1
    /\ \A p \in LinkSides :
          /\ LinkEndpoint(p[1], p[2]) \in pop_intfs
          /\ Cardinality(CablesOn(pop_cables, LinkEndpoint(p[1], p[2]))) = 1
          /\ Cardinality(LinkAddressesOn(pop_ips, LinkEndpoint(p[1], p[2]))) = 1

(***************************************************************************)
(* The core ring of LINKS against the neighbor tables of the phase 1 and   *)
(* phase 2 test modules.                                                   *)
(***************************************************************************)

\* EXPECTED_LDP_NEIGHBORS of tests/test_phase2_mpls_ldp.py
EXPECTED_LDP_NEIGHBORS ==
    [r \in SeqToSet(CORE_ROUTERS) |->
        CASE r = "core1" -> <<Dotted(<<10, 255, 1, 2>>), Dotted(<<10, 255, 1, 5>>)>>
          [] r = "core2" -> <<Dotted(<<10, 255, 1, 1>>), Dotted(<<10, 255, 1, 3>>)>>
          [] r = "core3" -> <<Dotted(<<10, 255, 1, 2>>), Dotted(<<10, 255, 1, 4>>)>>
          [] r = "core4" -> <<Dotted(<<10, 255, 1, 3>>), Dotted(<<10, 255, 1, 5>>)>>
          [] r = "core5" -> <<Dotted(<<10, 255, 1, 4>>), Dotted(<<10, 255, 1, 1>>)>>]

\* the loopbacks of the core routers that share an entry of LINKS with r
CoreLinkLoopbacks(r) ==
    {DEVICES[LINKS[i].dev_b].loopback :
        i \in {k \in 1..Len(LINKS) : LINKS[k].dev_a = r /\ InSeq(LINKS[k].dev_b, CORE_ROUTERS)}}
    \cup
    {DEVICES[LINKS[i].dev_a].loopback :
        i \in {k \in 1..Len(LINKS) : LINKS[k].dev_b = r /\ InSeq(LINKS[k].dev_a, CORE_ROUTERS)}}

\* the core routers whose ring neighbors are not the two of both tables
RingMismatches ==
    {r \in SeqToSet(CORE_ROUTERS) :
        ~ /\ Cardinality(CoreLinkLoopbacks(r)) = 2
          /\ CoreLinkLoopbacks(r) = SeqToSet(EXPECTED_NEIGHBORS[r])
          /\ CoreLinkLoopbacks(r) = SeqToSet(EXPECTED_LDP_NEIGHBORS[r])}

\* C16: for every core router the loopbacks of its ring neighbors in LINKS
\* are exactly two and are the ones EXPECTED_NEIGHBORS and
\* EXPECTED_LDP_NEIGHBORS list; once phase 1 has converged they are the
\* neighbors the router shows over its core links
C16_RingMatchesExpectedNeighbors ==
    /\ RingMismatches = {}
    /\ 1 \in net_converged =>
          \A r \in SeqToSet(CORE_ROUTERS) :
             {n.neighbor_id : n \in ParsedOspfNeighbors(r, {1})}
                = SeqToSet(EXPECTED_LDP_NEIGHBORS[r])

C16_Witness ==
    /\ 1 \in net_converged
    /\ net_val[1] = "passed"
    /\ \A r \in SeqToSet(CORE_ROUTERS) :
          Cardinality({n.neighbor_id : n \in ParsedOspfNeighbors(r, {1})}) = 2

(***************************************************************************)
(* tests/test_phase8_l3vpn.py: the VRFS table and the four tests of        *)
(* TestVRFDefinitions that read a router's vrf definition section.         *)
(***************************************************************************)

\* '65001:<n>'
AsnColon(n) == IntStr(65001) \o <<":">> \o IntStr(n)

Vrf(rd, rt_import, rt_export, routers) ==
    [rd |-> rd, rt_import |-> rt_import, rt_export |-> rt_export, routers |-> routers]

VrfNames == <<"STUDENT", "STAFF", "SERVERS">>

VRFS ==
    [v \in SeqToSet(VrfNames) |->
        CASE v = "STUDENT" -> Vrf(AsnColon(100), AsnColon(100), AsnColon(100), PE_ROUTERS)
          [] v = "STAFF" -> Vrf(AsnColon(200), AsnColon(200), AsnColon(200), PE_ROUTERS)
          [] v = "SERVERS" -> Vrf(AsnColon(300), AsnColon(300), AsnColon(300), <<"main-agg1">>)]

VrfText(v) ==
    CASE v = "STUDENT" -> <<"S", "T", "U", "D", "E", "N", "T">>
      [] v = "STAFF" -> <<"S", "T", "A", "F", "F">>
      [] v = "SERVERS" -> <<"S", "E", "R", "V", "E", "R", "S">>

VrfDefinitionText == <<"v", "r", "f", " ", "d", "e", "f", "i", "n", "i", "t", "i", "o", "n", " ">>
RdText == <<"r", "d", " ">>
RtExportText == <<"r", "o", "u", "t", "e", "-", "t", "a", "r", "g", "e", "t", " ", "e", "x", "p", "o", "r", "t", " ">>
RtImportText == <<"r", "o", "u", "t", "e", "-", "t", "a", "r", "g", "e", "t", " ", "i", "m", "p", "o", "r", "t", " ">>

\* a router's section: whether the VRF is defined, and the values of its rd
\* and route-target lines (the empty text: no such line)
VrfSection(defined, rd, rt_export, rt_import) ==
    [defined |-> defined, rd |-> rd, rt_export |-> rt_export, rt_import |-> rt_import]

\* device.execute('show running-config | section vrf definition <name>')
SectionOutput(v, sec) ==
    IF ~sec.defined THEN <<>>
    ELSE VrfDefinitionText \o VrfText(v) \o <<"\n">>
         \o (IF sec.rd = <<>> THEN <<>> ELSE <<" ">> \o RdText \o sec.rd \o <<"\n">>)
         \o (IF sec.rt_export = <<>> THEN <<>>
             ELSE <<" ">> \o RtExportText \o sec.rt_export \o <<"\n">>)
         \o (IF sec.rt_import = <<>> THEN <<>>
             ELSE <<" ">> \o RtImportText \o sec.rt_import \o <<"\n">>)

\* the loop `for router in vrf_info['routers']` with one assert in it
EveryRouterShows(v, cfg, wanted) ==
    IF \A i \in 1..Len(VRFS[v].routers) :
          Contains(SectionOutput(v, cfg[VRFS[v].routers[i]]), wanted)
    THEN "passed" ELSE "failed"

test_vrf_exists(v, cfg) == EveryRouterShows(v, cfg, VrfDefinitionText \o VrfText(v))

test_vrf_rd(v, cfg) == EveryRouterShows(v, cfg, RdText \o VRFS[v].rd)

test_vrf_rt_export(v, cfg) == EveryRouterShows(v, cfg, RtExportText \o VRFS[v].rt_export)

test_vrf_rt_import_AnyValue(v, cfg) == EveryRouterShows(v, cfg, RtImportText)

test_vrf_rt_import(v, cfg) == EveryRouterShows(v, cfg, RtImportText \o VRFS[v].rt_import)

\* the sections a router may hold for VRF v: none, the designed one, one with
\* the rd or the import target of another VRF, one without an export line
OtherVrf(v) == IF v = "STUDENT" THEN "STAFF" ELSE "STUDENT"

VrfSections(v) ==
    {VrfSection(FALSE, <<>>, <<>>, <<>>),
     VrfSection(TRUE, AsnColon(100), AsnColon(100), AsnColon(100)),
     VrfSection(TRUE, AsnColon(200), AsnColon(200), AsnColon(200)),
     VrfSection(TRUE, AsnColon(300), AsnColon(300), AsnColon(300)),
     VrfSection(TRUE, VRFS[v].rd, VRFS[v].rt_export, VRFS[OtherVrf(v)].rt_import),
     VrfSection(TRUE, VRFS[v].rd, <<>>, VRFS[v].rt_import)}

InitVrfTest ==
    /\ vf_name \in SeqToSet(VrfNames)
    /\ vf_cfg \in {f \in [SeqToSet(PE_ROUTERS) -> VrfSections(vf_name)] :
                     \A r \in SeqToSet(PE_ROUTERS) :
                        ~InSeq(r, VRFS[vf_name].routers) => ~f[r].defined}
    /\ vf_results = NoVrfResults
    /\ IdleBut({"vf"})

VrfExistsTest ==
    /\ vf_results.exists = "unset"
    /\ vf_results' = [vf_results EXCEPT !.exists = test_vrf_exists(vf_name, vf_cfg)]
    /\ UNCHANGED <<vf_name, vf_cfg>>
    /\ UNCHANGED notVf

VrfRdTest ==
    /\ vf_results.exists # "unset" /\ vf_results.rd = "unset"
    /\ vf_results' = [vf_results EXCEPT !.rd = test_vrf_rd(vf_name, vf_cfg)]
    /\ UNCHANGED <<vf_name, vf_cfg>>
    /\ UNCHANGED notVf

VrfRtExportTest ==
    /\ vf_results.rd # "unset" /\ vf_results.rt_export = "unset"
    /\ vf_results' = [vf_results EXCEPT !.rt_export = test_vrf_rt_export(vf_name, vf_cfg)]
    /\ UNCHANGED <<vf_name, vf_cfg>>
    /\ UNCHANGED notVf

VrfRtImportTest ==
    /\ vf_results.rt_export # "unset" /\ vf_results.rt_import = "unset"
    /\ vf_results' = [vf_results EXCEPT !.rt_import = test_vrf_rt_import(vf_name, vf_cfg)]
    /\ UNCHANGED <<vf_name, vf_cfg>>
    /\ UNCHANGED notVf

NextVrfTest == VrfExistsTest \/ VrfRdTest \/ VrfRtExportTest \/ VrfRtImportTest

SpecVrfTest == InitVrfTest /\ [][NextVrfTest]_vars

\* the VRFs whose import target, export target and rd are not one value
UnequalTargets ==
    {v \in DOMAIN VRFS : ~(VRFS[v].rt_import = VRFS[v].rd /\ VRFS[v].rt_export = VRFS[v].rd)}

\* the pairs of different VRFs with one rd
SharedRds == {p \in (DOMAIN VRFS) \X (DOMAIN VRFS) : p[1] # p[2] /\ VRFS[p[1]].rd = VRFS[p[2]].rd}

\* C17: every VRF of VRFS (STUDENT, STAFF, SERVERS) imports and exports the
\* value of its rd and no two VRFs share an rd; a router that passes the rd,
\* export and import tests of a VRF therefore holds one value in all three
\* lines, which is the rd of no other VRF
C17_TargetsEqualRdAndRdsDistinct ==
    /\ DOMAIN VRFS = {"STUDENT", "STAFF", "SERVERS"}
    /\ UnequalTargets = {}
    /\ SharedRds = {}
    /\ (vf_results.rd = "passed" /\ vf_results.rt_export = "passed"
          /\ vf_results.rt_import = "passed") =>
          \A i \in 1..Len(VRFS[vf_name].routers) :
             LET sec == vf_cfg[VRFS[vf_name].routers[i]]
             IN  /\ sec.rt_import = sec.rd
                 /\ sec.rt_export = sec.rd
                 /\ \A w \in DOMAIN VRFS : w # vf_name => sec.rd # VRFS[w].rd

C17_Witness ==
    /\ vf_name = "STUDENT"
    /\ vf_results.rd = "passed"
    /\ vf_results.rt_export = "passed"
    /\ vf_results.rt_import = "passed"

(***************************************************************************)
(* netbox_generate_configs.py followed by get_config_files of              *)
(* apply_configs.py: the generator runs to its end on a configs/ tree that *)
(* is empty or holds hand-written files, then get_config_files reads the   *)
(* directory of the same phase.                                            *)
(***************************************************************************)

ReadConfigs_FirstFileOnly(files, phase, device) ==
    LET r == get_config_files(files, phase, device)
        first == IF r.configs = {} THEN {} ELSE {CHOOSE n \in r.configs : TRUE}
    IN  [exit |-> r.exit, device |-> device,
         configs |-> [n \in first |-> files.files[<<PHASE_DIRS[phase], n>>]]]

\* the dict get_config_files returns: per stem of a *.cfg file of the phase
\* directory, cfg_file.read_text()
ReadConfigs(files, phase, device) ==
    LET r == get_config_files(files, phase, device)
    IN  [exit |-> r.exit, device |-> device,
         configs |-> [n \in r.configs |-> files.files[<<PHASE_DIRS[phase], n>>]]]

PriorFileSets == {{"core2", "core1"}, {"inet-gw1", "core1"}}

InitRoundTrip ==
    /\ nb \in Inventories
    /\ gen_phase \in 1..MaxPhaseArg
    /\ gen_filter \in FilterChoices
    /\ gen_dry_run \in BOOLEAN
    /\ gen_pc = "start"
    /\ gen_i = 0
    /\ all_loopbacks = <<>>
    /\ gen_out = <<>>
    /\ gen_exc = ""
    /\ fs \in {EmptyFs} \cup {FsWith(names) : names \in PriorFileSets}
    /\ rt_configs = Unset
    /\ IdleBut({"inv", "fs", "gen", "rt"})

\* get_config_files(phase, device) once the generator has returned
GetConfigFiles(device) ==
    /\ gen_pc = "done"
    /\ rt_configs = Unset
    /\ rt_configs' = ReadConfigs(fs, gen_phase, device)
    /\ UNCHANGED notRt

NextRoundTrip ==
    \/ GenStart
    \/ GenLoadLoopback
    \/ GenProcessDevice
    \/ \E device \in {NoFilter, "core2"} : GetConfigFiles(device)

SpecRoundTrip == InitRoundTrip /\ [][NextRoundTrip]_vars

\* the text generate_phase_configs renders for device d of phase p
GeneratedText(inv, p, d) ==
    LET devices == PHASE_CONFIG[p].devices
    IN  Render(PHASE_CONFIG[p].template,
               Context(p, d, get_device_data(inv, d),
                       AllLoopbacksOf(inv, devices, Len(devices))).context)

\* C18: after a generator run for phase 1, 2 or 3 that writes, has no device
\* filter and finds every phase device in the inventory, the directory
\* PHASE_CONFIG[p].name = PHASE_DIRS[p] holds for each phase device its file
\* with the rendered text, and get_config_files(p) returns one entry per
\* phase device with that text; any other entry is a file that was there
\* before the run
C18_GenerateApplyRoundTrip ==
    /\ \A p \in DOMAIN PHASE_CONFIG : PHASE_CONFIG[p].name = PHASE_DIRS[p]
    /\ ( /\ gen_pc = "done" /\ ~gen_dry_run /\ gen_phase \in DOMAIN PHASE_CONFIG
         /\ gen_filter = NoFilter
         /\ SeqToSet(PHASE_CONFIG[gen_phase].devices) \subseteq DOMAIN nb ) =>
          LET devs == SeqToSet(PHASE_CONFIG[gen_phase].devices)
              dir == PHASE_CONFIG[gen_phase].name
          IN  /\ dir \in fs.dirs
              /\ \A d \in devs :
                    /\ <<dir, d>> \in DOMAIN fs.files
                    /\ fs.files[<<dir, d>>] = GeneratedText(nb, gen_phase, d)
              /\ (rt_configs # Unset /\ rt_configs.device = NoFilter) =>
                    /\ rt_configs.exit = -1
                    /\ devs \subseteq DOMAIN rt_configs.configs
                    /\ \A d \in devs :
                          rt_configs.configs[d] = GeneratedText(nb, gen_phase, d)
                    /\ \A n \in (DOMAIN rt_configs.configs) \ devs :
                          rt_configs.configs[n] = HandConfig(n)

C18_Witness ==
    /\ gen_pc = "done" /\ ~gen_dry_run /\ gen_phase = 3 /\ gen_filter = NoFilter
    /\ SeqToSet(PHASE_CONFIG[3].devices) \subseteq DOMAIN nb
    /\ rt_configs # Unset
    /\ rt_configs.device = NoFilter
    /\ DOMAIN rt_configs.configs = SeqToSet(PHASE_CONFIG[3].devices)

\* C20: with dry_run true no step of generate_phase_configs changes the
\* file system, whatever the phase, the device filter and the tree it
\* starts on: no directory is made and no file is written or reported
C20_DryRunWritesNothing ==
    /\ [][gen_dry_run => fs' = fs]_vars
    /\ [](gen_dry_run => \A i \in 1..Len(gen_out) : gen_out[i][1] # "written")

C20_Witness ==
    /\ gen_dry_run
    /\ gen_pc = "done"
    /\ gen_filter = NoFilter
    /\ fs = EmptyFs
    /\ \A d \in SeqToSet(PHASE_CONFIG[1].devices) : InSeq(<<"preview", d>>, gen_out)

GenPhaseArgs == {1, 3} \cup (4..9)

InitScripts ==
    /\ nb = Inventory(SeqToSet(CoreDevices), {})
    /\ gen_phase \in GenPhaseArgs
    /\ gen_filter \in {NoFilter, "core2"}
    /\ gen_dry_run \in BOOLEAN
    /\ gen_pc = "start"
    /\ gen_i = 0
    /\ all_loopbacks = <<>>
    /\ gen_out = <<>>
    /\ gen_exc = ""
    /\ fs \in {EmptyFs} \cup {FsWith(names) : names \in PriorFileSets}
    /\ ap_testbed \in Testbeds
    /\ ap_phase = 0 /\ ap_device = NoFilter /\ ap_dry_run = FALSE
    /\ ap_pc = "idle"
    /\ ap_configs = <<>> /\ ap_i = 0 /\ ap_success = 0 /\ ap_failed = 0
    /\ ap_exit = -1 /\ ap_log = <<>> /\ ap_applied = {}
    /\ IdleBut({"inv", "fs", "gen", "ap"})

\* apply_configs.py started once the generator has ended
ApMainAfterGenerate(phase, device, dry_run) ==
    /\ gen_pc \in {"done", "raised"}
    /\ ap_pc = "idle"
    /\ ApMain(phase, device, dry_run)

NextScripts ==
    \/ GenStart
    \/ GenLoadLoopback
    \/ GenProcessDevice
    \/ \E phase \in (1..9) \cup UnknownPhases, device \in ApplyFilters, dry_run \in BOOLEAN :
           ApMainAfterGenerate(phase, device, dry_run)
    \/ ApplyDevice

SpecScripts == InitScripts /\ [][NextScripts]_vars

\* C24: the generator run with a phase that PHASE_CONFIG does not have ends
\* at once: it loads no loopback, processes no device and leaves the file
\* system as it is; apply_configs run with a phase that PHASE_DIRS does not
\* have, or whose directory does not exist, ends with status 1 and has
\* called nothing on any device
C24_UnknownPhaseChangesNothing ==
    /\ [][gen_phase \notin DOMAIN PHASE_CONFIG => fs' = fs]_vars
    /\ [](gen_phase \notin DOMAIN PHASE_CONFIG =>
            /\ gen_pc \in {"start", "done"}
            /\ all_loopbacks = <<>>
            /\ gen_exc = ""
            /\ gen_pc = "done" => gen_out = << <<"unknown_phase", "">> >>)
    /\ []((ap_pc # "idle" /\ (ap_phase \notin DOMAIN PHASE_DIRS
                               \/ PHASE_DIRS[ap_phase] \notin fs.dirs)) =>
            /\ ap_pc = "exit"
            /\ ap_exit = 1
            /\ \A i \in 1..Len(ap_log) : ap_log[i].op \notin DeviceCallOps)

C24_Witness ==
    /\ gen_phase = 9
    /\ gen_pc = "done"
    /\ ~gen_dry_run
    /\ fs = EmptyFs
    /\ ap_pc = "exit"
    /\ ap_phase = 9
    /\ ap_exit = 1
    /\ ap_log = <<LogEntry("print_no_directory", "")>>

\* the addresses of the populate data with the interface each is meant for
LoopbackIps ==
    {IpObject(DEVICES[d].loopback \o <<"/">> \o IntStr(32), <<d, Loopback0>>) :
        d \in SeqToSet(DeviceNames)}

MgmtIps ==
    {IpObject(DEVICES[d].mgmt \o <<"/">> \o IntStr(24), <<d, Gi(1)>>) :
        d \in SeqToSet(DeviceNames)}

LinkIps ==
    {IpObject(IF p[2] = "a" THEN LINKS[p[1]].ip_a ELSE LINKS[p[1]].ip_b,
              LinkEndpoint(p[1], p[2])) : p \in LinkSides}

DesignatedIps == LoopbackIps \cup MgmtIps \cup LinkIps

Addresses(ips) == {ip.address : ip \in ips}

\* C27: the 19 loopbacks, 19 management addresses and 56 link addresses of
\* the populate data are pairwise different, so on a server that starts
\* empty every address main finds or creates sits on the interface it is
\* meant for, and after main every Loopback0, GigabitEthernet1 and link
\* interface carries its designated address and no other
C27_AddressesDistinctAndDesignated ==
    /\ Cardinality(LoopbackIps) = 19
    /\ Cardinality(MgmtIps) = 19
    /\ Cardinality(LinkIps) = 56
    /\ Cardinality(Addresses(DesignatedIps)) = 94
    /\ pop_ips \subseteq DesignatedIps
    /\ \A d \in DOMAIN pop_devices :
          pop_devices[d] = DEVICES[d].mgmt \o <<"/">> \o IntStr(24)
    /\ pop_pc = "done" =>
          /\ pop_ips = DesignatedIps
          /\ \A intf \in pop_intfs : Cardinality(AddressesOn(pop_ips, intf)) = 1

C27_Witness ==
    /\ pop_pc = "done"
    /\ pop_run = 1
    /\ Cardinality(pop_ips) = 94
    /\ Cardinality(pop_intfs) = 94
    /\ pop_created.ips = 94

(***************************************************************************)
(* The link tables of the phase 2 and phase 4..7 test modules against      *)
(* DEVICES and LINKS of netbox_populate.py.                                *)
(***************************************************************************)

ExpLink_AddressesSwapped(phase, dev, num, ip, peer, peer_ip) ==
    [phase |-> phase, dev |-> dev, intf |-> Gi(num),
     ip |-> IF peer_ip = <<>> THEN Dotted(ip) ELSE Dotted(peer_ip), peer |-> peer,
     peer_ip |-> IF peer_ip = <<>> THEN <<>> ELSE Dotted(ip)]

\* one entry of P2P_LINKS or CORE_LINKS: the module's phase, the device, its
\* interface ('GigabitEthernet<n>' or 'Gi<n>'), its address, the peer and,
\* where the table has it, the peer's address
ExpLink(phase, dev, num, ip, peer, peer_ip) ==
    [phase |-> phase, dev |-> dev, intf |-> Gi(num), ip |-> Dotted(ip), peer |-> peer,
     peer_ip |-> IF peer_ip = <<>> THEN <<>> ELSE Dotted(peer_ip)]

\* P2P_LINKS of test_phase4_inet_gw.py, test_phase5_main_campus.py,
\* test_phase6_med_campus.py and test_phase7_res_campus.py
P2P_LINKS ==
    << ExpLink(4, "inet-gw1", 2, <<10, 0, 0, 11>>, "core1", <<>>),
       ExpLink(4, "inet-gw2", 2, <<10, 0, 0, 13>>, "core2", <<>>),
       ExpLink(4, "core1", 4, <<10, 0, 0, 10>>, "inet-gw1", <<>>),
       ExpLink(4, "core2", 4, <<10, 0, 0, 12>>, "inet-gw2", <<>>),
       ExpLink(5, "main-agg1", 2, <<10, 0, 1, 1>>, "core1", <<10, 0, 1, 0>>),
       ExpLink(5, "main-agg1", 3, <<10, 0, 1, 3>>, "core2", <<10, 0, 1, 2>>),
       ExpLink(5, "main-agg1", 4, <<10, 0, 1, 4>>, "main-edge1", <<10, 0, 1, 5>>),
       ExpLink(5, "main-agg1", 5, <<10, 0, 1, 6>>, "main-edge2", <<10, 0, 1, 7>>),
       ExpLink(5, "main-edge1", 2, <<10, 0, 1, 5>>, "main-agg1", <<10, 0, 1, 4>>),
       ExpLink(5, "main-edge1", 3, <<10, 0, 1, 8>>, "main-edge2", <<10, 0, 1, 9>>),
       ExpLink(5, "main-edge2", 2, <<10, 0, 1, 7>>, "main-agg1", <<10, 0, 1, 6>>),
       ExpLink(5, "main-edge2", 3, <<10, 0, 1, 9>>, "main-edge1", <<10, 0, 1, 8>>),
       ExpLink(6, "med-agg1", 2, <<10, 0, 2, 1>>, "core2", <<10, 0, 2, 0>>),
       ExpLink(6, "med-agg1", 3, <<10, 0, 2, 3>>, "core3", <<10, 0, 2, 2>>),
       ExpLink(6, "med-agg1", 4, <<10, 0, 2, 4>>, "med-edge1", <<10, 0, 2, 5>>),
       ExpLink(6, "med-agg1", 5, <<10, 0, 2, 6>>, "med-edge2", <<10, 0, 2, 7>>),
       ExpLink(6, "med-edge1", 2, <<10, 0, 2, 5>>, "med-agg1", <<10, 0, 2, 4>>),
       ExpLink(6, "med-edge1", 3, <<10, 0, 2, 8>>, "med-edge2", <<10, 0, 2, 9>>),
       ExpLink(6, "med-edge2", 2, <<10, 0, 2, 7>>, "med-agg1", <<10, 0, 2, 6>>),
       ExpLink(6, "med-edge2", 3, <<10, 0, 2, 9>>, "med-edge1", <<10, 0, 2, 8>>),
       ExpLink(7, "res-agg1", 2, <<10, 0, 3, 1>>, "core4", <<10, 0, 3, 0>>),
       ExpLink(7, "res-agg1", 3, <<10, 0, 3, 3>>, "core5", <<10, 0, 3, 2>>),
       ExpLink(7, "res-agg1", 4, <<10, 0, 3, 4>>, "res-edge1", <<10, 0, 3, 5>>),
       ExpLink(7, "res-agg1", 5, <<10, 0, 3, 6>>, "res-edge2", <<10, 0, 3, 7>>),
       ExpLink(7, "res-edge1", 2, <<10, 0, 3, 5>>, "res-agg1", <<10, 0, 3, 4>>),
       ExpLink(7, "res-edge1", 3, <<10, 0, 3, 8>>, "res-edge2", <<10, 0, 3, 9>>),
       ExpLink(7, "res-edge2", 2, <<10, 0, 3, 7>>, "res-agg1", <<10, 0, 3, 6>>),
       ExpLink(7, "res-edge2", 3, <<10, 0, 3, 9>>, "res-edge1", <<10, 0, 3, 8>>) >>

\* CORE_LINKS of the phase 5, 6 and 7 test modules
CORE_LINKS ==
    << ExpLink(5, "core1", 5, <<10, 0, 1, 0>>, "main-agg1", <<>>),
       ExpLink(5, "core2", 5, <<10, 0, 1, 2>>, "main-agg1", <<>>),
       ExpLink(6, "core2", 6, <<10, 0, 2, 0>>, "med-agg1", <<>>),
       ExpLink(6, "core3", 4, <<10, 0, 2, 2>>, "med-agg1", <<>>),
       ExpLink(7, "core4", 4, <<10, 0, 3, 0>>, "res-agg1", <<>>),
       ExpLink(7, "core5", 4, <<10, 0, 3, 2>>, "res-agg1", <<>>) >>

\* MPLS_INTERFACES of test_phase2_mpls_ldp.py
MPLS_INTERFACES == [r \in SeqToSet(CORE_ROUTERS) |-> <<Gi(2), Gi(3)>>]

HostOf(cidr) == Split(cidr, "/")[1]

\* the entries of LINKS with the endpoints and addresses of table entry e
MatchingLinks(e) ==
    {i \in 1..Len(LINKS) :
        \/ /\ LINKS[i].dev_a = e.dev /\ LINKS[i].intf_a = e.intf
           /\ HostOf(LINKS[i].ip_a) = e.ip /\ LINKS[i].dev_b = e.peer
           /\ e.peer_ip # <<>> => HostOf(LINKS[i].ip_b) = e.peer_ip
        \/ /\ LINKS[i].dev_b = e.dev /\ LINKS[i].intf_b = e.intf
           /\ HostOf(LINKS[i].ip_b) = e.ip /\ LINKS[i].dev_a = e.peer
           /\ e.peer_ip # <<>> => HostOf(LINKS[i].ip_a) = e.peer_ip}

\* the core links an interface of MPLS_INTERFACES is an end of
MplsLinks(r, intf) ==
    {i \in 1..Len(LINKS) :
        /\ InSeq(LINKS[i].dev_a, CORE_ROUTERS) /\ InSeq(LINKS[i].dev_b, CORE_ROUTERS)
        /\ LinkEndpoint(i, "a") = <<r, intf>> \/ LinkEndpoint(i, "b") = <<r, intf>>}

ExpectedLinks == SeqToSet(P2P_LINKS) \cup SeqToSet(CORE_LINKS)

UnmatchedExpectations ==
    {e \in ExpectedLinks : Cardinality(MatchingLinks(e)) # 1}

UnmatchedMplsInterfaces ==
    {p \in SeqToSet(CORE_ROUTERS) \X {1, 2} :
        Cardinality(MplsLinks(p[1], MPLS_INTERFACES[p[1]][p[2]])) # 1}

SubIntf(num, unit) == [name |-> Gi(num), unit |-> unit]

VRF_INTERFACES_ServersEverywhere ==
    [r \in SeqToSet(PE_ROUTERS) |->
        << [k |-> "STUDENT", v |-> SubIntf(4, 100)],
           [k |-> "STAFF", v |-> SubIntf(4, 200)],
           [k |-> "SERVERS", v |-> SubIntf(4, 300)] >>]

VRF_INTERFACES ==
    [r \in SeqToSet(PE_ROUTERS) |->
        IF r = "main-agg1"
        THEN << [k |-> "STUDENT", v |-> SubIntf(4, 100)],
                [k |-> "STAFF", v |-> SubIntf(4, 200)],
                [k |-> "SERVERS", v |-> SubIntf(4, 300)] >>
        ELSE << [k |-> "STUDENT", v |-> SubIntf(4, 100)],
                [k |-> "STAFF", v |-> SubIntf(4, 200)] >>]

\* VRF_INTERFACES.get(router, {})
RouterVrfs(router) ==
    IF router \in DOMAIN VRF_INTERFACES THEN VRF_INTERFACES[router] ELSE <<>>

\* the (router, VRF) pairs the loops `for router in vrf_info['routers']` of
\* the definition tests visit
DefinitionTestPairs ==
    UNION {{<<VRFS[v].routers[i], v>> : i \in 1..Len(VRFS[v].routers)} : v \in DOMAIN VRFS}

\* the (router, VRF) pairs the loops over VRF_INTERFACES.get(router, {}) of
\* the tests parametrized by PE_ROUTERS visit
InterfaceTestPairs ==
    UNION {{<<r, v>> : v \in DictKeys(RouterVrfs(r))} : r \in SeqToSet(PE_ROUTERS)}

\* C29: a PE router is in VRFS[V]['routers'] exactly when V is a key of
\* VRF_INTERFACES[router], so both families of tests visit the same
\* (router, VRF) pairs; a passing test_vrf_exists of a VRF has seen the
\* definition on every router whose VRF_INTERFACES entry names that VRF
C29_VrfMembershipTablesAgree ==
    /\ \A r \in SeqToSet(PE_ROUTERS) : \A v \in DOMAIN VRFS :
          InSeq(r, VRFS[v].routers) <=> DictHas(RouterVrfs(r), v)
    /\ DefinitionTestPairs = InterfaceTestPairs
    /\ vf_results.exists = "passed" =>
          \A r \in SeqToSet(PE_ROUTERS) :
             DictHas(RouterVrfs(r), vf_name) => vf_cfg[r].defined

C29_Witness ==
    /\ vf_name = "SERVERS"
    /\ vf_results.exists = "passed"
    /\ vf_results.rt_import # "unset"
    /\ ~DictHas(RouterVrfs("med-agg1"), vf_name)

(***************************************************************************)
(* `neighbor in output` and `neighbor in line` of the phase-3 tests are    *)
(* substring tests: the loopbacks of DEVICES as texts inside one another,  *)
(* and inside the lines of the summary.                                    *)
(***************************************************************************)

\* the pairs of different devices where the loopback of the first is found
\* inside the loopback of the second
AmbiguousLoopbacks ==
    {p \in (DOMAIN DEVICES) \X (DOMAIN DEVICES) :
        /\ p[1] # p[2]
        /\ Contains(DEVICES[p[2]].loopback, DEVICES[p[1]].loopback)}

\* the peers of the summary whose line holds the text neighbor
PeersMatching(states, neighbor) ==
    {p \in SeqToSet(SummaryPeers) :
        /\ states[p] # "absent"
        /\ Contains(SummaryLine(p, states[p]), neighbor)}

\* C30: no loopback of DEVICES is found inside the loopback of another
\* device; in a summary a router shows, the lines that hold an expected
\* neighbor address are lines of the device with that loopback only, and the
\* address is in the output exactly when that device has a line
C30_LoopbackSubstringUnambiguous ==
    /\ AmbiguousLoopbacks = {}
    /\ \A n \in SeqToSet(EXPECTED_BGP_NEIGHBORS[bt_router]) :
          /\ \A p \in PeersMatching(bt_states, n) : DEVICES[p].loopback = n
          /\ Contains(bt_output, n) <=> PeersMatching(bt_states, n) # {}

C30_Witness ==
    /\ bt_result # "unset"
    /\ bt_router = "core1"
    /\ \A p \in SeqToSet(SummaryPeers) : bt_states[p] # "absent"
    /\ Cardinality(PeersMatching(bt_states, DEVICES["core2"].loopback)) = 1

(***************************************************************************)
(* get_device_data on an inventory whose link address has any prefix       *)
(* length: one device with a Loopback0 and one GigabitEthernet2 carrying   *)
(* the address dd_addr/dd_plen.                                            *)
(***************************************************************************)

MaskAddrs ==
    { Dotted(<<10, 0, 0, 10>>), Dotted(<<10, 255, 1, 1>>),
      Dotted(<<192, 168, 68, 200>>), Dotted(<<0, 0, 0, 0>>) }

MaskInventory(d, addr, plen) ==
    [n \in {d} |->
        << NbIntf(Loopback0, <<DEVICES[d].loopback \o <<"/">> \o IntStr(32)>>, ""),
           NbIntf(Gi(2), <<addr \o <<"/">> \o IntStr(plen)>>, "core2") >>]

InitMask ==
    /\ dd_name = "core1"
    /\ dd_addr \in MaskAddrs
    /\ dd_plen \in 0..MaxPrefixLen
    /\ nb = MaskInventory(dd_name, dd_addr, dd_plen)
    /\ dd_out = Unset
    /\ IdleBut({"inv", "mask"})

GetDeviceDataCall ==
    /\ dd_out = Unset
    /\ dd_out' = get_device_data(nb, dd_name)
    /\ UNCHANGED <<nb, dd_name, dd_plen, dd_addr>>
    /\ UNCHANGED notMask

NextMask == GetDeviceDataCall

SpecMask == InitMask /\ [][NextMask]_vars

\* the netmask of p leading one-bits, octet by octet
Pow2(n) == IF n = 0 THEN 1 ELSE IF n = 1 THEN 2 ELSE IF n = 2 THEN 4
           ELSE IF n = 3 THEN 8 ELSE IF n = 4 THEN 16 ELSE IF n = 5 THEN 32
           ELSE IF n = 6 THEN 64 ELSE IF n = 7 THEN 128 ELSE 256
StandardOctet(p, k) ==
    IF p >= 8 * k THEN 255
    ELSE IF p <= 8 * (k - 1) THEN 0
    ELSE 256 - Pow2(8 * k - p)
StandardMask(p) == Dotted([k \in 1..4 |-> StandardOctet(p, k)])

\* C9: for every prefix length p in 0..32 the mask get_device_data computes
\* is the standard netmask of p leading one-bits (31 -> 255.255.255.254,
\* 32 -> 255.255.255.255, 24 -> 255.255.255.0, 0 -> 0.0.0.0), and for the
\* address 'a/p' the record has ip = a and prefix = 'a/p'.
C9_MaskTotalAndCorrect ==
    dd_out # Unset =>
        /\ dd_out # NoneRec
        /\ Len(dd_out.interfaces) = 1
        /\ LET rec == dd_out.interfaces[1]
           IN  /\ rec.mask = StandardMask(dd_plen)
               /\ dd_plen = 31 => rec.mask = Dotted(<<255, 255, 255, 254>>)
               /\ dd_plen = 32 => rec.mask = Dotted(<<255, 255, 255, 255>>)
               /\ dd_plen = 24 => rec.mask = Dotted(<<255, 255, 255, 0>>)
               /\ dd_plen = 0  => rec.mask = Dotted(<<0, 0, 0, 0>>)
               /\ rec.ip = dd_addr
               /\ rec.prefix = dd_addr \o <<"/">> \o IntStr(dd_plen)

C9_Witness ==
    /\ dd_out # Unset
    /\ dd_plen = 31
    /\ dd_addr = Dotted(<<10, 0, 0, 10>>)
    /\ dd_out.interfaces[1].mask = Dotted(<<255, 255, 255, 254>>)
    /\ dd_out.interfaces[1].ip = Dotted(<<10, 0, 0, 10>>)

====
